---- MODULE Spec2Model ----
(***************************************************************************)
(* A model of the chain compiler of chainos-javascript                     *)
(* (src/src/models/chain.ts) and of the function converter it delegates to *)
(* (src/unnamed/part_001, utils/functions/converter).                      *)
(*                                                                         *)
(* Strings are modelled as strings: a synthetic node id is the entry id    *)
(* concatenated with "_preprocessing" / "_postprocessing", exactly as the  *)
(* template literals of compile() build it, so that an entry whose own id  *)
(* ends in such a suffix is a case the model can reach.                    *)
(***************************************************************************)
EXTENDS Integers, Sequences, FiniteSets, TLC

VARIABLES registry, entryPointId, functionConverter, files, last,
          fileSystem, invocations

vars == <<registry, entryPointId, functionConverter, files, last,
          fileSystem, invocations>>

(* The state the task-side operations work on: the files on disk and the   *)
(* invocations of Task.run() in flight. No operation of a Chain or of a    *)
(* FunctionConverter reads or writes it.                                   *)
taskVars == <<fileSystem, invocations>>

----------------------------------------------------------------------------
(* Bounds of the model *)

MaxEntries == 2

MaxTargets == 2

MaxConversions == 2

----------------------------------------------------------------------------
(* Values *)

Null == "<null>"

Absent == "<absent>"

NoValue == [kind |-> "none"]

NoConverter == [kind |-> "none"]

ChainId == "chain-1"

ChainName == ""

Ids == {"a", "b", "a_preprocessing"}

Truthy(s) == s # Null /\ s # Absent /\ s # ""

(* JavaScript truthiness of an optional object-valued field *)
IsSet(v) == v.kind # "none"

IsFunction(v) == v.kind = "function"

Fn(ref, source) == [kind |-> "function", ref |-> ref, source |-> source]

F1 == Fn("f1", "(input) => input")

F2 == Fn("f2", "(input) => ({ ...input })")

F3 == Fn("f3", "(input) => input")

(* Task objects. ref stands for the object's identity; environment is the  *)
(* runtime detected once at construction; cpu and memory are the defaults  *)
(* of a Task built without resource options.                               *)
NewTask(ref, id, filepath, name, environment) ==
    [kind |-> "task", ref |-> ref, id |-> id, name |-> name,
     filepath |-> filepath, main |-> "main", environment |-> environment,
     cpu |-> "0.25", memory |-> "1gb"]

T1 == NewTask("t1", "task-1", "/tasks/one.js", "/tasks/one.js", "javascript")

T2 == NewTask("t2", "task-2", "/tasks/two.py", "/tasks/two.py", "python")

P1 == NewTask("p1", "pre-task", "/tasks/pre.ts", "/tasks/pre.ts", "typescript")

----------------------------------------------------------------------------
(* The registry: a Map, modelled as the sequence of its entries in         *)
(* insertion order, one entry per key.                                     *)

Keys(reg) == {reg[i].id : i \in 1..Len(reg)}

Has(reg, id) == id \in Keys(reg)

Get(reg, id) == reg[CHOOSE i \in 1..Len(reg) : reg[i].id = id]

(* A Map.set that moves a key it replaces to the end *)
MapSetMovingToEnd(reg, entry) ==
    Append(SelectSeq(reg, LAMBDA e : e.id # entry.id), entry)

(* Map.set: replaces the value of an existing key in place, appends a new  *)
(* key at the end.                                                         *)
MapSet(reg, entry) ==
    IF Has(reg, entry.id)
    THEN [i \in 1..Len(reg) |-> IF reg[i].id = entry.id THEN entry ELSE reg[i]]
    ELSE Append(reg, entry)

TargetLists == UNION {[1..n -> Ids] : n \in 0..MaxTargets}

TargetValues ==
    {[defined |-> FALSE, list |-> <<>>]}
        \cup {[defined |-> TRUE, list |-> l] : l \in TargetLists}

Entry(id, task, marketplaceId, pre, post, targets) ==
    [id |-> id, task |-> task, marketplaceId |-> marketplaceId,
     preprocessing |-> pre, postprocessing |-> post, targets |-> targets]

----------------------------------------------------------------------------
(* compile() *)

PreprocessingId(id) == id \o "_preprocessing"

PostprocessingId(id) == id \o "_postprocessing"

TaskSummary(task) ==
    [id |-> task.id, name |-> task.name, filepath |-> task.filepath,
     main |-> task.main, environment |-> task.environment,
     resources |-> [cpu |-> task.cpu, memory |-> task.memory]]

(* First pass: the main node of an entry *)
MainNode(entry) ==
    [id |-> entry.id,
     type |-> "task",
     task |-> IF IsSet(entry.task) THEN TaskSummary(entry.task) ELSE NoValue,
     marketplaceId |-> IF Truthy(entry.marketplaceId)
                       THEN entry.marketplaceId ELSE Absent,
     targets |-> IF entry.targets.defined /\ Len(entry.targets.list) > 0
                 THEN entry.targets ELSE [defined |-> FALSE, list |-> <<>>]]

(* First pass: the processing steps collected for one entry *)
EntryProcessingNodes(entry) ==
    (IF IsSet(entry.preprocessing)
     THEN <<[id |-> PreprocessingId(entry.id), parentId |-> entry.id,
             type |-> "preprocessing",
             isFunction |-> IsFunction(entry.preprocessing),
             task |-> IF IsFunction(entry.preprocessing)
                      THEN NoValue ELSE entry.preprocessing]>>
     ELSE <<>>)
    \o
    (IF IsSet(entry.postprocessing)
     THEN <<[id |-> PostprocessingId(entry.id), parentId |-> entry.id,
             type |-> "postprocessing",
             isFunction |-> IsFunction(entry.postprocessing),
             task |-> IF IsFunction(entry.postprocessing)
                      THEN NoValue ELSE entry.postprocessing]>>
     ELSE <<>>)

RECURSIVE CollectProcessingNodes(_, _)
CollectProcessingNodes(reg, n) ==
    IF n = 0 THEN <<>>
    ELSE CollectProcessingNodes(reg, n - 1) \o EntryProcessingNodes(reg[n])

(* Second pass: the node emitted for a processing step *)
ProcessingNodeInfo(p) ==
    [id |-> p.id, type |-> p.type, parentId |-> p.parentId,
     function |-> p.isFunction,
     task |-> IF ~p.isFunction /\ IsSet(p.task) THEN TaskSummary(p.task)
              ELSE NoValue]

Edge(source, target) == [source |-> source, target |-> target]

(* Second pass: the edges pushed for a processing step *)
ProcessingEdges(reg, p) ==
    IF p.type = "preprocessing"
    THEN <<Edge(p.id, p.parentId)>>
    ELSE LET entry == Get(reg, p.parentId)
             tl == IF entry.targets.defined THEN entry.targets.list ELSE <<>>
         IN  <<Edge(p.parentId, p.id)>>
                 \o [k \in 1..Len(tl) |-> Edge(p.id, tl[k])]

RECURSIVE SecondPassEdges(_, _, _)
SecondPassEdges(reg, ps, n) ==
    IF n = 0 THEN <<>>
    ELSE SecondPassEdges(reg, ps, n - 1) \o ProcessingEdges(reg, ps[n])

(* Third pass: the edge of an entry without postprocessing to one target *)
DirectEdge(reg, entry, targetId) ==
    IF Has(reg, targetId) /\ IsSet(Get(reg, targetId).preprocessing)
    THEN Edge(entry.id, PreprocessingId(targetId))
    ELSE Edge(entry.id, targetId)

DirectEdges(reg, entry) ==
    IF ~IsSet(entry.postprocessing) /\ entry.targets.defined
    THEN [k \in 1..Len(entry.targets.list) |->
             DirectEdge(reg, entry, entry.targets.list[k])]
    ELSE <<>>

RECURSIVE ThirdPassEdges(_, _)
ThirdPassEdges(reg, n) ==
    IF n = 0 THEN <<>>
    ELSE ThirdPassEdges(reg, n - 1) \o DirectEdges(reg, reg[n])

(* A compile() that marks the preprocessing id of any entry point *)
ActualEntryPointOfAnyEntry(reg, ep) ==
    IF Truthy(ep) THEN PreprocessingId(ep) ELSE Absent

ActualEntryPoint(reg, ep) ==
    IF Truthy(ep) /\ Has(reg, ep) /\ IsSet(Get(reg, ep).preprocessing)
    THEN PreprocessingId(ep)
    ELSE Absent

(* A compile() that hands every generated edge to the document *)
FilterEdgesKeepingAll(edges, nodeIds) == edges

RECURSIVE FilterEdges(_, _)
FilterEdges(edges, nodeIds) ==
    IF edges = <<>> THEN <<>>
    ELSE LET rest == FilterEdges(Tail(edges), nodeIds)
             e == Head(edges)
         IN  IF e.source \in nodeIds /\ e.target \in nodeIds
             THEN <<e>> \o rest ELSE rest

Bump(d, env) ==
    IF \E k \in 1..Len(d) : d[k].env = env
    THEN [k \in 1..Len(d) |->
             IF d[k].env = env
             THEN [env |-> env, count |-> d[k].count + 1] ELSE d[k]]
    ELSE Append(d, [env |-> env, count |-> 1])

(* A distribution that counts the Tasks of processing steps as well *)
RECURSIVE DistributionOverAllTasks(_, _)
DistributionOverAllTasks(reg, n) ==
    IF n = 0 THEN <<>>
    ELSE LET d0 == DistributionOverAllTasks(reg, n - 1)
             d1 == IF IsSet(reg[n].task)
                   THEN Bump(d0, reg[n].task.environment) ELSE d0
             d2 == IF reg[n].preprocessing.kind = "task"
                   THEN Bump(d1, reg[n].preprocessing.environment) ELSE d1
         IN  IF reg[n].postprocessing.kind = "task"
             THEN Bump(d2, reg[n].postprocessing.environment) ELSE d2

(* taskTypes: one pair per environment, in the order the keys are created *)
RECURSIVE GetTaskTypeDistribution(_, _)
GetTaskTypeDistribution(reg, n) ==
    IF n = 0 THEN <<>>
    ELSE LET d == GetTaskTypeDistribution(reg, n - 1)
         IN  IF IsSet(reg[n].task) THEN Bump(d, reg[n].task.environment)
             ELSE d

CompiledChain(reg, ep) ==
    LET mainNodes == [i \in 1..Len(reg) |-> MainNode(reg[i])]
        processingNodes == CollectProcessingNodes(reg, Len(reg))
        nodes == mainNodes
                   \o [i \in 1..Len(processingNodes) |->
                          ProcessingNodeInfo(processingNodes[i])]
        nodeIds == {nodes[i].id : i \in 1..Len(nodes)}
        edges == SecondPassEdges(reg, processingNodes, Len(processingNodes))
                   \o ThirdPassEdges(reg, Len(reg))
        kept == FilterEdges(edges, nodeIds)
    IN  [kind |-> "compiled",
         id |-> ChainId,
         name |-> IF Truthy(ChainName) THEN ChainName ELSE ChainId,
         entryPoint |-> ep,
         nodes |-> nodes,
         edges |-> kept,
         actualEntryPoint |-> ActualEntryPoint(reg, ep),
         statistics |-> [totalNodes |-> Len(nodes),
                         totalEdges |-> Len(kept),
                         hasEntryPoint |-> Truthy(ep),
                         taskTypes |-> GetTaskTypeDistribution(reg, Len(reg))]]

----------------------------------------------------------------------------
(* The function converter (utils/functions/converter) *)

DefaultFunctionsDir == "/cwd/.chainos/functions"

NoOptions == [outputDir |-> Absent, extension |-> Absent, namePrefix |-> Absent]

CustomOptions == [outputDir |-> "/out", extension |-> ".ts", namePrefix |-> "fn_"]

OptionValues == {NoOptions, CustomOptions}

(* crypto.randomBytes(4).toString('hex'): any of the values it can return *)
RandomIds == {"0a0a0a0a", "f1f1f1f1"}

ProcessingTypes == {"preprocessing", "postprocessing"}

Or(s, default) == IF Truthy(s) THEN s ELSE default

Capitalized(processingType) ==
    IF processingType = "preprocessing" THEN "Preprocessing" ELSE "Postprocessing"

(* Runtime detection for a generated file: the extension, and a            *)
(* package.json above the default directory only.                          *)
DetectEnvironment(outputDir, extension) ==
    IF outputDir # DefaultFunctionsDir THEN "unknown"
    ELSE IF extension = ".ts" THEN "typescript" ELSE "javascript"

(* functionToTask: serial numbers the Task objects it allocates *)
FunctionToTask(fn, processingType, parentTaskId, options, functionId, serial) ==
    LET outputDir == Or(options.outputDir, DefaultFunctionsDir)
        extension == Or(options.extension, ".js")
        namePrefix == Or(options.namePrefix, "processor_")
        functionName ==
            namePrefix \o processingType \o "_" \o parentTaskId \o "_" \o functionId
        filePath == outputDir \o "/" \o functionName \o extension
    IN  [task |-> NewTask("generated-" \o ToString(serial),
                          processingType \o "-" \o parentTaskId \o "-" \o functionId,
                          filePath,
                          Capitalized(processingType) \o " for " \o parentTaskId,
                          DetectEnvironment(outputDir, extension)),
         filePath |-> filePath,
         functionName |-> functionName,
         originalFunction |-> fn.source]

NewConverter(options) ==
    [kind |-> "converter", options |-> options, conversions |-> <<>>]

(* Map.has: by reference *)
Converted(conv, fn) ==
    \E k \in 1..Len(conv.conversions) : conv.conversions[k].fn = fn

(* A converter that answers every hit with its oldest conversion *)
OldestConversion(conv, fn) ==
    conv.conversions[1]

(* Map.get: by reference *)
Conversion(conv, fn) ==
    conv.conversions[CHOOSE k \in 1..Len(conv.conversions) :
                         conv.conversions[k].fn = fn]

(* convertFunction: the returned Task, the converter afterwards and the    *)
(* files written by the call.                                              *)
ConvertFunction(conv, fn, processingType, parentTaskId, functionId, serial) ==
    IF Converted(conv, fn)
    THEN [task |-> Conversion(conv, fn).result.task, conv |-> conv,
          written |-> {}]
    ELSE LET result == FunctionToTask(fn, processingType, parentTaskId,
                                      conv.options, functionId, serial)
         IN  [task |-> result.task,
              conv |-> [conv EXCEPT !.conversions =
                           Append(@, [fn |-> fn, result |-> result])],
              written |-> {result.filePath}]

----------------------------------------------------------------------------
(* materializeProcessingFunctions() *)

(* A materialization that converts preprocessing functions only *)
MaterializeFieldOfPreprocessing(st, i, field, rnds) ==
    LET entry == st.reg[i]
    IN  IF field = "preprocessing" /\ IsFunction(entry.preprocessing)
        THEN LET r == ConvertFunction(st.conv, entry.preprocessing, field,
                                      entry.id, rnds[st.used + 1],
                                      Len(st.conv.conversions) + 1)
             IN  [reg |-> [st.reg EXCEPT
                              ![i] = [entry EXCEPT !.preprocessing = r.task]],
                  conv |-> r.conv,
                  files |-> st.files \cup r.written,
                  used |-> st.used + 1]
        ELSE st

(* One processing field of one entry: converted in place if it is a function *)
MaterializeField(st, i, field, rnds) ==
    LET entry == st.reg[i]
        value == IF field = "preprocessing" THEN entry.preprocessing
                 ELSE entry.postprocessing
    IN  IF IsSet(value) /\ IsFunction(value)
        THEN LET fresh == ~Converted(st.conv, value)
                 r == ConvertFunction(st.conv, value, field, entry.id,
                                      IF fresh THEN rnds[st.used + 1]
                                      ELSE "", Len(st.conv.conversions) + 1)
                 e2 == IF field = "preprocessing"
                       THEN [entry EXCEPT !.preprocessing = r.task]
                       ELSE [entry EXCEPT !.postprocessing = r.task]
             IN  [reg |-> [st.reg EXCEPT ![i] = e2],
                  conv |-> r.conv,
                  files |-> st.files \cup r.written,
                  used |-> IF fresh THEN st.used + 1 ELSE st.used]
        ELSE st

RECURSIVE MaterializeEntries(_, _, _)
MaterializeEntries(st, n, rnds) ==
    IF n = 0 THEN st
    ELSE MaterializeField(
             MaterializeField(MaterializeEntries(st, n - 1, rnds),
                              n, "preprocessing", rnds),
             n, "postprocessing", rnds)

EnsureConverter(conv, options) ==
    IF IsSet(conv) THEN conv ELSE NewConverter(options)

MaterializeProcessingFunctions(reg, conv, fs, options, rnds) ==
    MaterializeEntries([reg |-> reg, conv |-> EnsureConverter(conv, options),
                        files |-> fs, used |-> 0],
                       Len(reg), rnds)

----------------------------------------------------------------------------
(* Operations of a Chain *)

(* The outcome of the last call. register, setEntryPoint and the           *)
(* constructor hand back the chain itself and are recorded alike.          *)
Chained == [op |-> "chained", threw |-> FALSE]

Register(entry) ==
    /\ Len(registry) < MaxEntries \/ Has(registry, entry.id)
    /\ registry' = MapSet(registry, entry)
    /\ last' = Chained
    /\ UNCHANGED <<entryPointId, functionConverter, files>>
    /\ UNCHANGED taskVars

(* A setEntryPoint() without the registry check *)
SetEntryPointUnchecked(id) ==
    /\ entryPointId' = id
    /\ last' = Chained
    /\ UNCHANGED <<registry, functionConverter, files>>
    /\ UNCHANGED taskVars

SetEntryPoint(id) ==
    /\ IF ~Has(registry, id)
       THEN /\ last' = [op |-> "setEntryPoint", threw |-> TRUE, id |-> id]
            /\ UNCHANGED entryPointId
       ELSE /\ entryPointId' = id
            /\ last' = Chained
    /\ UNCHANGED <<registry, functionConverter, files>>
    /\ UNCHANGED taskVars

(* rnds[k] is the random suffix drawn by the k-th conversion of the call *)
Materialize(options, rnds) ==
    /\ LET st == MaterializeProcessingFunctions(registry, functionConverter,
                                                files, options, rnds)
       IN  /\ registry' = st.reg
           /\ functionConverter' = st.conv
           /\ files' = st.files
    /\ last' = [op |-> "materialize", threw |-> FALSE, options |-> options]
    /\ UNCHANGED entryPointId
    /\ UNCHANGED taskVars

(* The document of the call before, when that call and this one are both   *)
(* compile() without materialization.                                      *)
PriorDocument(materializeFunctions) ==
    IF ~materializeFunctions /\ last.op = "compile" /\ ~last.materializeFunctions
    THEN last.document ELSE NoValue

(* A compile() that moves the entry point to the preprocessing node *)
CompileMovingEntryPoint(materializeFunctions, rnds) ==
    /\ UNCHANGED <<registry, functionConverter, files>>
    /\ UNCHANGED taskVars
    /\ entryPointId' = IF Truthy(entryPointId) /\ Has(registry, entryPointId)
                            /\ IsSet(Get(registry, entryPointId).preprocessing)
                        THEN PreprocessingId(entryPointId) ELSE entryPointId
    /\ last' = [op |-> "compile", threw |-> FALSE,
                materializeFunctions |-> materializeFunctions,
                document |-> CompiledChain(registry, entryPointId),
                prior |-> PriorDocument(materializeFunctions)]

Compile(materializeFunctions, rnds) ==
    /\ IF materializeFunctions
       THEN LET st == MaterializeProcessingFunctions(
                          registry, functionConverter, files, NoOptions, rnds)
            IN  /\ registry' = st.reg
                /\ functionConverter' = st.conv
                /\ files' = st.files
       ELSE UNCHANGED <<registry, functionConverter, files>>
    /\ last' = [op |-> "compile", threw |-> FALSE,
                materializeFunctions |-> materializeFunctions,
                document |-> CompiledChain(registry', entryPointId),
                prior |-> PriorDocument(materializeFunctions)]
    /\ UNCHANGED entryPointId
    /\ UNCHANGED taskVars

----------------------------------------------------------------------------
(* Specifications *)

(* new Chain(id) *)
Init ==
    /\ registry = <<>>
    /\ entryPointId = Null
    /\ functionConverter = NoConverter
    /\ files = {}
    /\ last = Chained
    /\ fileSystem = <<>>
    /\ invocations = <<>>

SetEntryPointCall == \E id \in Ids : SetEntryPoint(id)

CompileCall == Compile(FALSE, <<>>)

(* Spec: a chain driven through all its operations. *)

ChainIds == {"a", "b"}

ChainEntries ==
    {Entry(id, T1, Absent, pre, post, targets) :
        id \in ChainIds,
        pre \in {NoValue, F1, P1},
        post \in {NoValue, F2, P1},
        targets \in {[defined |-> FALSE, list |-> <<>>]}}

RegisterCall == \E entry \in ChainEntries : Register(entry)

(* The functions a chain of this specification can hold are F1 and F2, one *)
(* of each processing type, so two generated names never coincide and one  *)
(* random suffix stands for all.                                           *)
ChainRandomIds == {"0a0a0a0a"}

ChainSuffixes == [1..2 -> ChainRandomIds]

MaterializeCall ==
    \E options \in OptionValues, rnds \in ChainSuffixes :
        Materialize(options, rnds)

CompileMaterializedCall == \E rnds \in ChainSuffixes : Compile(TRUE, rnds)

Next ==
    \/ RegisterCall
    \/ SetEntryPointCall
    \/ MaterializeCall
    \/ CompileCall
    \/ CompileMaterializedCall

Spec == Init /\ [][Next]_vars

(* SpecCompile: compile() as a function of the registry and the entry      *)
(* point. The chain starts with any registry that register() calls can     *)
(* build from the entries below.                                           *)

(* Entries whose processing steps are Tasks: every combination of          *)
(* preprocessing, postprocessing and targets over Ids.                     *)
GraphEntries ==
    {Entry(id, T1, Absent, pre, post, targets) :
        id \in Ids,
        pre \in {NoValue, P1},
        post \in {NoValue, P1},
        targets \in TargetValues}

(* Entries with and without tasks of several runtimes, and with Tasks as   *)
(* processing steps.                                                       *)
StatisticsEntries ==
    {Entry(id, tm[1], tm[2], pre, post, [defined |-> FALSE, list |-> <<>>]) :
        id \in Ids,
        tm \in {<<T1, Absent>>, <<T2, Absent>>, <<P1, "marketplace-1">>,
                <<NoValue, "marketplace-1">>, <<NoValue, Absent>>},
        pre \in {NoValue, T1, P1},
        post \in {NoValue, T2}}

(* Entries whose targets name the postprocessing node of an entry *)
ProcessingTargetEntries ==
    {Entry(id, T1, Absent, pre, post, targets) :
        id \in ChainIds,
        pre \in {NoValue, P1},
        post \in {NoValue, P1},
        targets \in {[defined |-> TRUE, list |-> <<PostprocessingId("a")>>],
                     [defined |-> TRUE, list |-> <<"b", PostprocessingId("a")>>]}}

Registries(entries) ==
    {reg \in UNION {[1..n -> entries] : n \in 0..MaxEntries} :
        \A i, j \in 1..Len(reg) : reg[i].id = reg[j].id => i = j}

InitCompile ==
    /\ registry \in Registries(GraphEntries) \cup Registries(StatisticsEntries)
                      \cup Registries(ProcessingTargetEntries)
    /\ entryPointId = Null
    /\ functionConverter = NoConverter
    /\ files = {}
    /\ last = Chained
    /\ fileSystem = <<>>
    /\ invocations = <<>>

NextCompile ==
    \/ SetEntryPointCall
    \/ CompileCall

SpecCompile == InitCompile /\ [][NextCompile]_vars

(* SpecConverter: a FunctionConverter of its own, as the chain holds one,  *)
(* called with any function, processing type and parent id.                *)

Functions == {F1, F2, F3}

InitConverter ==
    /\ registry = <<>>
    /\ entryPointId = Null
    /\ functionConverter \in {NewConverter(options) : options \in OptionValues}
    /\ files = {}
    /\ last = Chained
    /\ fileSystem = <<>>
    /\ invocations = <<>>

ConvertFunctionCall ==
    \E fn \in Functions, processingType \in ProcessingTypes,
       parentTaskId \in ChainIds, functionId \in RandomIds :
        /\ Converted(functionConverter, fn)
             \/ Len(functionConverter.conversions) < MaxConversions
        /\ LET r == ConvertFunction(functionConverter, fn, processingType,
                                    parentTaskId, functionId,
                                    Len(functionConverter.conversions) + 1)
           IN  /\ functionConverter' = r.conv
               /\ files' = files \cup r.written
               /\ last' = [op |-> "convertFunction", threw |-> FALSE,
                           fn |-> fn, processingType |-> processingType,
                           parentTaskId |-> parentTaskId, task |-> r.task]
        /\ UNCHANGED <<registry, entryPointId>>
        /\ UNCHANGED taskVars

NextConverter == ConvertFunctionCall

SpecConverter == InitConverter /\ [][NextConverter]_vars

----------------------------------------------------------------------------
(* Properties of the compiled graph *)

Compiled == last.op = "compile"

EdgeSet(document) == {document.edges[i] : i \in 1..Len(document.edges)}

NodeIds(document) == {document.nodes[i].id : i \in 1..Len(document.nodes)}

Targets(entry) == IF entry.targets.defined THEN entry.targets.list ELSE <<>>

TargetSet(entry) == {Targets(entry)[k] : k \in 1..Len(Targets(entry))}

(* C1: in every compiled graph an entry X that declares preprocessing is   *)
(* entered only through its preprocessing node: every edge whose target is *)
(* X has source X_preprocessing, whatever the entries that list X as a     *)
(* target declare, postprocessing included.                                *)
C1_EnteredThroughPreprocessing ==
    Compiled =>
        \A i \in 1..Len(registry) :
            IsSet(registry[i].preprocessing) =>
                \A e \in EdgeSet(last.document) :
                    e.target = registry[i].id =>
                        e.source = PreprocessingId(registry[i].id)

(* C2: for registered entries A and B where A has no postprocessing,       *)
(* A.targets contains B's id and B declares preprocessing, compile() emits *)
(* the edge A -> B_preprocessing and emits no edge A -> B.                 *)
C2_EdgePrecedence ==
    Compiled =>
        \A i, j \in 1..Len(registry) :
            LET A == registry[i]
                B == registry[j]
            IN  (/\ ~IsSet(A.postprocessing)
                 /\ B.id \in TargetSet(A)
                 /\ IsSet(B.preprocessing))
                => /\ Edge(A.id, PreprocessingId(B.id)) \in EdgeSet(last.document)
                   /\ Edge(A.id, B.id) \notin EdgeSet(last.document)

(* C3: for an entry E with postprocessing whose targets are all registered *)
(* ids, compile() emits E -> E_postprocessing and one edge                 *)
(* E_postprocessing -> Ti for each target Ti, and no direct edge E -> Ti.  *)
C3_PostprocessingFanOut ==
    Compiled =>
        \A i \in 1..Len(registry) :
            LET E == registry[i]
            IN  (IsSet(E.postprocessing) /\ TargetSet(E) \subseteq Keys(registry))
                => /\ Edge(E.id, PostprocessingId(E.id)) \in EdgeSet(last.document)
                   /\ \A t \in TargetSet(E) :
                        /\ Edge(PostprocessingId(E.id), t) \in EdgeSet(last.document)
                        /\ Edge(E.id, t) \notin EdgeSet(last.document)

(* No registered id is the synthetic node id of a registered entry *)
NoSyntheticIdRegistered ==
    \A i, j \in 1..Len(registry) :
        /\ registry[i].id # PreprocessingId(registry[j].id)
        /\ registry[i].id # PostprocessingId(registry[j].id)

(* C2 and C3 on the registries whose ids are not synthetic node ids *)
EdgePrecedenceWithoutSyntheticIds ==
    NoSyntheticIdRegistered => C2_EdgePrecedence

PostprocessingFanOutWithoutSyntheticIds ==
    NoSyntheticIdRegistered => C3_PostprocessingFanOut

(* C4: in every compiled graph each edge's source and target are ids of    *)
(* nodes of that graph; a target id that names no node produces no edge,   *)
(* and compile() raises no error because of it.                            *)
C4_EdgesReferenceNodes ==
    Compiled =>
        /\ ~last.threw
        /\ \A e \in EdgeSet(last.document) :
             /\ e.source \in NodeIds(last.document)
             /\ e.target \in NodeIds(last.document)
        /\ \A i \in 1..Len(registry) :
             \A t \in TargetSet(registry[i]) :
                 t \notin NodeIds(last.document) =>
                     \A e \in EdgeSet(last.document) : e.target # t

(* C4 witness: a graph compiled from a registry with a target that names   *)
(* no node, next to a target that does.                                    *)
C4_Witness ==
    /\ Compiled
    /\ \E i \in 1..Len(registry) :
         /\ \E t \in TargetSet(registry[i]) : t \notin NodeIds(last.document)
         /\ \E t \in TargetSet(registry[i]) : t \in NodeIds(last.document)
    /\ Len(last.document.edges) > 0

Environments == {"javascript", "typescript", "python", "unknown"}

CountFor(distribution, env) ==
    IF \E k \in 1..Len(distribution) : distribution[k].env = env
    THEN distribution[CHOOSE k \in 1..Len(distribution) :
                          distribution[k].env = env].count
    ELSE 0

RECURSIVE SumOfCounts(_, _)
SumOfCounts(distribution, n) ==
    IF n = 0 THEN 0
    ELSE SumOfCounts(distribution, n - 1) + distribution[n].count

(* C6: the task-type distribution counts, per detected runtime, the main   *)
(* tasks of the registry entries only, never a task used as preprocessing  *)
(* or postprocessing, and its counts sum to the number of entries that     *)
(* carry a task.                                                           *)
C6_TaskTypeDistribution ==
    Compiled =>
        LET d == last.document.statistics.taskTypes
        IN  /\ \A env \in Environments :
                 CountFor(d, env) =
                     Cardinality({i \in 1..Len(registry) :
                                     /\ IsSet(registry[i].task)
                                     /\ registry[i].task.environment = env})
            /\ \A k \in 1..Len(d) : d[k].env \in Environments /\ d[k].count > 0
            /\ \A k, l \in 1..Len(d) : d[k].env = d[l].env => k = l
            /\ SumOfCounts(d, Len(d)) =
                 Cardinality({i \in 1..Len(registry) : IsSet(registry[i].task)})

(* C6 witness: a compiled registry with a main task, an entry without a    *)
(* task, and a processing Task of a runtime no main task has.              *)
C6_Witness ==
    /\ Compiled
    /\ \E i, j \in 1..Len(registry) :
         /\ IsSet(registry[i].task)
         /\ ~IsSet(registry[j].task)
         /\ registry[j].preprocessing.kind = "task"
         /\ CountFor(last.document.statistics.taskTypes,
                     registry[j].preprocessing.environment) = 0

(* C7: compiling twice without materialization and without a register or   *)
(* setEntryPoint call in between yields identical documents, and a compile *)
(* without materialization leaves the registry and entryPointId unchanged. *)
C7_CompileIdempotent ==
    [][(last'.op = "compile" /\ ~last'.materializeFunctions)
         => /\ registry' = registry
            /\ entryPointId' = entryPointId
            /\ (last.op = "compile" /\ ~last.materializeFunctions)
                 => last'.document = last.document]_vars

(* C7 witness: a second compile in a row of a chain with an entry point    *)
(* and with processing steps, one of them an unmaterialized function.      *)
C7_Witness ==
    /\ Compiled
    /\ IsSet(last.prior)
    /\ last.document = last.prior
    /\ entryPointId # Null
    /\ \E i \in 1..Len(registry) : IsFunction(registry[i].preprocessing)
    /\ Len(last.document.edges) > 0

(* C8: setEntryPoint(id) with an id that is not a registry key throws and  *)
(* leaves entryPointId unchanged, so that after any sequence of calls      *)
(* entryPointId is null or a key of the registry.                          *)
C8_EntryPointIsKey ==
    [][/\ entryPointId' = Null \/ entryPointId' \in Keys(registry')
       /\ last'.threw => /\ last'.op = "setEntryPoint"
                         /\ last'.id \notin Keys(registry)
                         /\ entryPointId' = entryPointId
                         /\ registry' = registry
       /\ entryPointId' # entryPointId => entryPointId' \in Keys(registry)]_vars

(* C8 witness: a rejected setEntryPoint on a chain whose entry point is set *)
C8_Witness ==
    /\ last.threw
    /\ last.op = "setEntryPoint"
    /\ entryPointId # Null
    /\ last.id # entryPointId

StoredFor(conv, fn) ==
    {k \in 1..Len(conv.conversions) : conv.conversions[k].fn.ref = fn.ref}

(* C9: convertFunction called with a callback reference it has already     *)
(* converted returns the identical Task as the first time, whatever        *)
(* processingType and parentTaskId are passed, generates no new file and   *)
(* leaves the number of stored conversions unchanged; two distinct         *)
(* callback references get two distinct Tasks and two stored conversions.  *)
C9_ConversionReuse ==
    [][last'.op = "convertFunction" =>
         LET before == functionConverter.conversions
             after == functionConverter'.conversions
             fn == last'.fn
         IN  /\ StoredFor(functionConverter, fn) # {} =>
                  /\ \A k \in StoredFor(functionConverter, fn) :
                         last'.task = before[k].result.task
                  /\ files' = files
                  /\ after = before
             /\ StoredFor(functionConverter, fn) = {} =>
                  /\ Len(after) = Len(before) + 1
                  /\ \A k \in 1..Len(before) :
                         /\ after[k] = before[k]
                         /\ before[k].result.task # last'.task
                  /\ after[Len(after)].fn = fn
                  /\ after[Len(after)].result.task = last'.task
             /\ \A k, l \in 1..Len(after) :
                  k # l => /\ after[k].fn.ref # after[l].fn.ref
                           /\ after[k].result.task # after[l].result.task]_vars

(* C9 witness: a converted function converted again with another           *)
(* processing type and parent, answered with the Task of the first call,   *)
(* in a converter that holds two conversions.                              *)
C9_Witness ==
    /\ last.op = "convertFunction"
    /\ Len(functionConverter.conversions) = 2
    /\ last.fn = functionConverter.conversions[1].fn
    /\ last.task = functionConverter.conversions[1].result.task
    /\ \A t \in ProcessingTypes, p \in ChainIds, r \in RandomIds :
         last.task.id = t \o "-" \o p \o "-" \o r =>
             t # last.processingType /\ p # last.parentTaskId

(* The last call ran materializeProcessingFunctions *)
Materialized(outcome) ==
    \/ outcome.op = "materialize"
    \/ outcome.op = "compile" /\ outcome.materializeFunctions

(* C10: after materializeProcessingFunctions returns no registry entry has *)
(* a function-valued preprocessing or postprocessing; every processing     *)
(* value that was a Task is the same Task afterwards; the registry keys,   *)
(* each entry's task and targets, and entryPointId are unchanged.          *)
C10_MaterializeInPlace ==
    [][Materialized(last') =>
         /\ entryPointId' = entryPointId
         /\ Len(registry') = Len(registry)
         /\ \A i \in 1..Len(registry) :
              /\ registry'[i].id = registry[i].id
              /\ registry'[i].task = registry[i].task
              /\ registry'[i].targets = registry[i].targets
              /\ registry'[i].marketplaceId = registry[i].marketplaceId
              /\ registry'[i].preprocessing.kind # "function"
              /\ registry'[i].postprocessing.kind # "function"
              /\ registry[i].preprocessing.kind # "function" =>
                   registry'[i].preprocessing = registry[i].preprocessing
              /\ registry[i].postprocessing.kind # "function" =>
                   registry'[i].postprocessing = registry[i].postprocessing
              /\ registry[i].preprocessing.kind = "function" =>
                   registry'[i].preprocessing.kind = "task"
              /\ registry[i].postprocessing.kind = "function" =>
                   registry'[i].postprocessing.kind = "task"]_vars

(* C10 witness: a materialized registry that holds a generated Task, as    *)
(* postprocessing, next to a processing Task the caller registered.        *)
C10_Witness ==
    /\ last.op = "materialize"
    /\ \E i, j \in 1..Len(registry) :
         /\ registry[i].postprocessing.kind = "task"
         /\ registry[i].postprocessing.filepath \in files
         /\ registry[j].preprocessing = P1

----------------------------------------------------------------------------
(* Task (src/src/models/task.ts): paths and the files on disk              *)

(* A path is the sequence of its components; the root is the empty         *)
(* sequence. path.dirname of the root is the root.                         *)
Root == <<>>

Dirname(p) == IF Len(p) = 0 THEN p ELSE SubSeq(p, 1, Len(p) - 1)

Join(dir, name) == Append(dir, name)

Basename(p) == p[Len(p)]

(* path.extname on the file names of the model: the text from the last dot *)
(* on, empty when the name has no dot or only a leading one.               *)
ExtName(name) ==
    CASE name = "task.js" -> ".js"
      [] name = "task.jsx" -> ".jsx"
      [] name = "task.ts" -> ".ts"
      [] name = "task.tsx" -> ".tsx"
      [] name = "task.TS" -> ".TS"
      [] name = "task.py" -> ".py"
      [] name = "task.PY" -> ".PY"
      [] name = "task.txt" -> ".txt"
      [] name = "task.json" -> ".json"
      [] OTHER -> ""

(* An extension compared as the caller wrote it *)
KeepCase(s) == s

ToLowerCase(s) ==
    CASE s = ".TS" -> ".ts"
      [] s = ".PY" -> ".py"
      [] OTHER -> s

(* String.includes('ts') on the extensions above *)
IncludesTs(extension) == extension \in {".ts", ".tsx"}

(* fileSystem maps each existing path to the text of the file *)
ExistsSync(fs, p) == p \in DOMAIN fs

WriteFileSync(fs, p, text) ==
    [q \in DOMAIN fs \cup {p} |-> IF q = p THEN text ELSE fs[q]]

UnlinkSync(fs, p) == [q \in DOMAIN fs \ {p} |-> fs[q]]

(* JSON: values are records, their text is another value; a text that is   *)
(* the text of no value does not parse.                                    *)
JsonValues ==
    {[name |-> "chainos"], [value |-> 1], [value |-> 2],
     [result |-> 1], [result |-> 2]}

JsonStringify(v) == ToString(v)

JsonParses(text) == \E v \in JsonValues : JsonStringify(v) = text

JsonParse(text) == CHOOSE v \in JsonValues : JsonStringify(v) = text

Undefined == <<"<undefined>">>

(* findFileUpwards: the body of the while loop from currentDir at depth *)
RECURSIVE FindFileUpwardsFrom(_, _, _, _, _)
FindFileUpwardsFrom(fs, filenames, currentDir, depth, maxDepth) ==
    IF depth >= maxDepth THEN Undefined
    ELSE LET present == {k \in 1..Len(filenames) :
                            ExistsSync(fs, Join(currentDir, filenames[k]))}
             parentDir == Dirname(currentDir)
         IN  IF present # {}
             THEN Join(currentDir,
                       filenames[CHOOSE k \in present :
                                     \A j \in present : k <= j])
             ELSE IF parentDir = currentDir THEN Undefined
             ELSE FindFileUpwardsFrom(fs, filenames, parentDir, depth + 1,
                                      maxDepth)

(* A search that follows each candidate up the tree before it tries the    *)
(* next one                                                                *)
FindFileUpwardsNameFirst(fs, filenames, startDir, maxDepth) ==
    LET found == {k \in 1..Len(filenames) :
                     FindFileUpwardsFrom(fs, <<filenames[k]>>, startDir, 0,
                                         maxDepth) # Undefined}
    IN  IF found = {} THEN Undefined
        ELSE FindFileUpwardsFrom(
                 fs, <<filenames[CHOOSE k \in found : \A j \in found : k <= j]>>,
                 startDir, 0, maxDepth)

(* findFileUpwards(filename, startDir, maxDepth): filenames is the array   *)
(* the method makes of its first argument.                                 *)
FindFileUpwards(fs, filenames, startDir, maxDepth) ==
    FindFileUpwardsFrom(fs, filenames, startDir, 0, maxDepth)

DefaultMaxDepth == 5

PythonMarkers == <<"requirements.txt", "setup.py", "pyproject.toml">>

(* detectEnvironment: the EnvironmentConfig of a task at filepath; a field *)
(* the code leaves unset holds Undefined (configPath) or NoValue (config). *)
DetectEnvironmentConfig(fs, filepath) ==
    LET dirPath == Dirname(filepath)
        extension == ToLowerCase(ExtName(Basename(filepath)))
        unknown == [type |-> "unknown", configPath |-> Undefined,
                    config |-> NoValue]
    IN  IF extension \in {".js", ".ts", ".jsx", ".tsx"}
        THEN LET packageJsonPath ==
                     FindFileUpwards(fs, <<"package.json">>, dirPath,
                                     DefaultMaxDepth)
             IN  IF packageJsonPath # Undefined
                    /\ JsonParses(fs[packageJsonPath])
                 THEN [type |-> IF IncludesTs(extension)
                                THEN "typescript" ELSE "javascript",
                       configPath |-> packageJsonPath,
                       config |-> JsonParse(fs[packageJsonPath])]
                 ELSE unknown
        ELSE IF extension \in {".py"}
        THEN LET pythonConfigPath ==
                     FindFileUpwards(fs, PythonMarkers, dirPath,
                                     DefaultMaxDepth)
             IN  IF pythonConfigPath # Undefined
                 THEN [type |-> "python", configPath |-> pythonConfigPath,
                       config |-> NoValue]
                 ELSE unknown
        ELSE unknown

NoTaskOptions == [displayName |-> Absent, entryFunctionName |-> Absent]

(* new Task(filepath, options): id is the UUID crypto.randomUUID() drew;   *)
(* the display name defaults to the path as the caller wrote it.           *)
Task(fs, filepath, options, id) ==
    [kind |-> "task", id |-> id, filepath |-> filepath,
     name |-> IF Truthy(options.displayName)
              THEN options.displayName ELSE ToString(filepath),
     main |-> Or(options.entryFunctionName, "main"),
     environment |-> DetectEnvironmentConfig(fs, filepath)]

----------------------------------------------------------------------------
(* SpecDetect: Task construction and findFileUpwards over the manifests    *)
(* found on disk. The disk is drawn once; the calls read it.               *)

MaxManifests == 2

(* A directory six levels deep, so that a manifest in d1 or in the root is *)
(* further up than the default search examines.                            *)
DeepDir == <<"d1", "d2", "d3", "d4", "d5", "d6">>

Directories == {SubSeq(DeepDir, 1, n) : n \in 0..Len(DeepDir)}

StartDirs == {DeepDir, <<"d1", "d2">>, Root}

ManifestNames == {"package.json", "requirements.txt", "setup.py", "pyproject.toml"}

InvalidJson == "{invalid-json"

(* What a manifest file may hold: any package.json, valid or not; a Python *)
(* marker is never read.                                                   *)
ManifestTexts(name) ==
    IF name = "package.json"
    THEN {JsonStringify([name |-> "chainos"]), InvalidJson}
    ELSE {""}

RECURSIVE SubsetsUpTo(_, _)
SubsetsUpTo(S, n) ==
    IF n = 0 THEN {{}}
    ELSE LET smaller == SubsetsUpTo(S, n - 1)
         IN  smaller \cup {T \cup {x} : T \in smaller, x \in S}

ManifestPaths == {Join(dir, name) : dir \in Directories, name \in ManifestNames}

Disks ==
    UNION {{fs \in [S -> UNION {ManifestTexts(name) : name \in ManifestNames}] :
               \A p \in S : fs[p] \in ManifestTexts(Basename(p))} :
           S \in SubsetsUpTo(ManifestPaths, MaxManifests)}

TaskFileNames ==
    {"task.js", "task.jsx", "task.ts", "task.tsx", "task.TS", "task.py",
     "task.PY", "task.txt", "task", ".py"}

Uuids == {"0b1c", "7e2d"}

InitDetect ==
    /\ registry = <<>>
    /\ entryPointId = Null
    /\ functionConverter = NoConverter
    /\ files = {}
    /\ last = [op |-> "none", threw |-> FALSE]
    /\ fileSystem \in Disks
    /\ invocations = <<>>

NewTaskCall ==
    \E dir \in StartDirs, name \in TaskFileNames, id \in Uuids :
        /\ last' = [op |-> "newTask", threw |-> FALSE,
                    filepath |-> Join(dir, name),
                    task |-> Task(fileSystem, Join(dir, name), NoTaskOptions,
                                  id)]
        /\ UNCHANGED <<registry, entryPointId, functionConverter, files>>
        /\ UNCHANGED taskVars

CandidateLists ==
    {<<"package.json">>, PythonMarkers, <<"pyproject.toml", "setup.py">>}

FindFileUpwardsCall ==
    \E filenames \in CandidateLists, startDir \in StartDirs,
       maxDepth \in {1, 2, DefaultMaxDepth} :
        /\ last' = [op |-> "findFileUpwards", threw |-> FALSE,
                    filenames |-> filenames, startDir |-> startDir,
                    maxDepth |-> maxDepth,
                    result |-> FindFileUpwards(fileSystem, filenames,
                                               startDir, maxDepth)]
        /\ UNCHANGED <<registry, entryPointId, functionConverter, files>>
        /\ UNCHANGED taskVars

NextDetect ==
    \/ NewTaskCall
    \/ FindFileUpwardsCall

SpecDetect == InitDetect /\ [][NextDetect]_vars

----------------------------------------------------------------------------
(* Properties of runtime detection *)

(* The k-th ancestor of a directory, itself for k = 0 *)
Ancestor(dir, k) == SubSeq(dir, 1, Len(dir) - k)

(* The levels a search from dir examines: the directory and its ancestors, *)
(* maxDepth directories at most, the root being the last.                  *)
Levels(dir, maxDepth) == {k \in 0..(maxDepth - 1) : k <= Len(dir)}

LevelsWith(fs, names, dir, maxDepth) ==
    {k \in Levels(dir, maxDepth) :
        \E i \in 1..Len(names) : ExistsSync(fs, Join(Ancestor(dir, k), names[i]))}

Nearest(levels) == CHOOSE k \in levels : \A j \in levels : k <= j

(* C17: the runtime detected at construction is typescript for .ts/.tsx    *)
(* and javascript for .js/.jsx (in any letter case) when the package.json  *)
(* the search finds parses, python for .py when the search finds one of    *)
(* the three markers, unknown in every other case, a package.json that     *)
(* does not parse included; a config path is attached exactly when the     *)
(* runtime is not unknown, and an unknown runtime carries no config.       *)
C17_DetectedRuntime ==
    last.op = "newTask" =>
        LET dir == Dirname(last.filepath)
            ext == ExtName(Basename(last.filepath))
            env == last.task.environment
            pkgLevels == LevelsWith(fileSystem, <<"package.json">>, dir,
                                    DefaultMaxDepth)
            pkgParses ==
                /\ pkgLevels # {}
                /\ JsonParses(fileSystem[Join(Ancestor(dir, Nearest(pkgLevels)),
                                              "package.json")])
            markerFound ==
                LevelsWith(fileSystem, PythonMarkers, dir, DefaultMaxDepth) # {}
            expected ==
                CASE ext \in {".ts", ".tsx", ".TS"} /\ pkgParses -> "typescript"
                  [] ext \in {".js", ".jsx"} /\ pkgParses -> "javascript"
                  [] ext \in {".py", ".PY"} /\ markerFound -> "python"
                  [] OTHER -> "unknown"
        IN  /\ ~last.threw
            /\ env.type = expected
            /\ env.configPath # Undefined <=> env.type # "unknown"
            /\ env.type = "unknown" => env.config = NoValue

(* C17 witness: an upper-case .TS task detected as typescript from the     *)
(* package.json two levels up, while a package.json that does not parse    *)
(* lies further up.                                                        *)
C17_Witness ==
    /\ last.op = "newTask"
    /\ Basename(last.filepath) = "task.TS"
    /\ last.task.environment.type = "typescript"
    /\ last.task.environment.configPath =
           Join(Ancestor(Dirname(last.filepath), 2), "package.json")
    /\ \E k \in 3..4 :
           LET p == Join(Ancestor(Dirname(last.filepath), k), "package.json")
           IN  ExistsSync(fileSystem, p) /\ fileSystem[p] = InvalidJson

(* C18: findFileUpwards returns undefined when no examined directory holds *)
(* a candidate; otherwise its result lies in the nearest examined          *)
(* directory that holds one and is the earliest-listed candidate present   *)
(* in that directory.                                                      *)
C18_NearestThenListOrder ==
    last.op = "findFileUpwards" =>
        LET names == last.filenames
            hits == LevelsWith(fileSystem, names, last.startDir, last.maxDepth)
        IN  IF hits = {} THEN last.result = Undefined
            ELSE LET dir == Ancestor(last.startDir, Nearest(hits))
                 IN  \E i \in 1..Len(names) :
                         /\ last.result = Join(dir, names[i])
                         /\ ExistsSync(fileSystem, last.result)
                         /\ \A j \in 1..(i - 1) :
                                ~ExistsSync(fileSystem, Join(dir, names[j]))

(* C18 witness: the later-listed candidate is returned from a directory    *)
(* above the start while the first-listed one lies further up, within the  *)
(* levels examined.                                                        *)
C18_Witness ==
    /\ last.op = "findFileUpwards"
    /\ last.result # Undefined
    /\ Len(last.filenames) > 1
    /\ Basename(last.result) = last.filenames[2]
    /\ Dirname(last.result) # last.startDir
    /\ \E k \in Levels(last.startDir, last.maxDepth) :
           /\ Len(Ancestor(last.startDir, k)) < Len(Dirname(last.result))
           /\ ExistsSync(fileSystem,
                         Join(Ancestor(last.startDir, k), last.filenames[1]))

----------------------------------------------------------------------------
(* Resource normalization of a Task built with cpu and memory options.     *)
(* Numbers with a fraction are scaled: a CPU amount is counted in          *)
(* hundredths of a CPU, the number of a memory request in tenths.          *)

Max(a, b) == IF a >= b THEN a ELSE b

(* Math.ceil(a / b) for b > 0 *)
CeilDiv(a, b) == IF a % b = 0 THEN a \div b ELSE (a \div b) + 1

(* 0.25 CPU, in hundredths *)
CpuStep == 25

(* A number passed as an option; NoValue when the option is left out *)
Number(n) == [kind |-> "number", value |-> n]

(* A CPU amount rounded to the nearest step *)
NormalizeCpuToNearest(requested) ==
    IF ~IsSet(requested) THEN CpuStep
    ELSE Max(CpuStep,
             ((requested.value + CpuStep \div 2) \div CpuStep) * CpuStep)

(* normalizeCpu: up to the next multiple of 0.25, at least 0.25 *)
NormalizeCpu(requested) ==
    IF ~IsSet(requested) THEN CpuStep
    ELSE Max(CpuStep, CeilDiv(requested.value, CpuStep) * CpuStep)

(* 256 MiB *)
MemoryStep == 256

DefaultMemory == "1gb"

MemoryUnits == {"mb", "gb", "tb"}

UnitToLowerCase(unit) ==
    CASE unit = "MB" -> "mb"
      [] unit = "GB" -> "gb"
      [] unit = "TB" -> "tb"
      [] OTHER -> unit

(* MiB per unit *)
UnitFactor(unit) ==
    CASE unit = "mb" -> 1
      [] unit = "gb" -> 1024
      [] unit = "tb" -> 1024 * 1024

(* The number of a text that has no digits *)
NoNumber == -1

(* A memory request is the text sign, number, unit, rest; number is in     *)
(* tenths and is NoNumber when the text has no digits there. The pattern   *)
(* is digits with an optional fraction, then one of the units, nothing     *)
(* else.                                                                   *)
MemoryRequest(sign, number, unit, rest) ==
    [kind |-> "text", sign |-> sign, number |-> number, unit |-> unit,
     rest |-> rest]

MatchesPattern(requested) ==
    /\ requested.sign = ""
    /\ requested.number # NoNumber
    /\ UnitToLowerCase(requested.unit) \in MemoryUnits
    /\ requested.rest = ""

MemoryText(mib) == ToString(mib) \o "mb"

(* A normalization that truncates to the step below *)
NormalizeMemoryDown(requested) ==
    IF ~IsSet(requested) THEN DefaultMemory
    ELSE IF ~MatchesPattern(requested) THEN MemoryText(MemoryStep)
    ELSE LET tenthsOfMib ==
                 requested.number * UnitFactor(UnitToLowerCase(requested.unit))
         IN  MemoryText(Max(MemoryStep,
                            (tenthsOfMib \div (10 * MemoryStep)) * MemoryStep))

(* normalizeMemory: up to the next multiple of 256 MiB, at least 256 MiB,  *)
(* rendered in mb; 256mb for a text that does not match the pattern.       *)
NormalizeMemory(requested) ==
    IF ~IsSet(requested) THEN DefaultMemory
    ELSE IF ~MatchesPattern(requested) THEN MemoryText(MemoryStep)
    ELSE LET tenthsOfMib ==
                 requested.number * UnitFactor(UnitToLowerCase(requested.unit))
         IN  MemoryText(Max(MemoryStep,
                            CeilDiv(tenthsOfMib, 10 * MemoryStep) * MemoryStep))

(* new Task(id, filepath, options) with cpu and memory options *)
NewTaskWithResources(fs, id, filepath, options) ==
    [kind |-> "task", id |-> id, filepath |-> filepath,
     name |-> ToString(filepath), main |-> "main",
     environment |-> DetectEnvironmentConfig(fs, filepath),
     cpu |-> NormalizeCpu(options.cpu),
     memory |-> NormalizeMemory(options.memory)]

----------------------------------------------------------------------------
(* SpecResources: Tasks constructed with a cpu or a memory request *)

(* The largest CPU request of the range, in hundredths *)
MaxCpuRequest == 230

(* The largest number of a gb or tb request, in tenths *)
MaxMemoryNumber == 30

CpuRequests ==
    {NoValue} \cup {Number(n) : n \in (-30..MaxCpuRequest) \cup {500, 875, 1600}}

(* Numbers of mb requests, in tenths: 0mb, 10mb, 255.9mb .. 256.1mb,       *)
(* 300mb, 400mb, 512mb, 512.1mb, 1024mb                                    *)
MbNumbers == {0, 100, 2559, 2560, 2561, 3000, 4000, 5120, 5121, 10240}

MemoryRequests ==
    {NoValue}
    \cup {MemoryRequest(sign, number, unit, "") :
             sign \in {"", "-"}, number \in MbNumbers, unit \in {"mb", "MB"}}
    \cup {MemoryRequest(sign, number, unit, "") :
             sign \in {"", "-"}, number \in 0..MaxMemoryNumber,
             unit \in {"gb", "tb", "GB"}}
    \cup {MemoryRequest("", number, unit, rest) :
             number \in {NoNumber, 1000}, unit \in {"", "kb", "gb"},
             rest \in {"", "s"}}

ResourceOptions ==
    {[cpu |-> cpu, memory |-> NoValue] : cpu \in CpuRequests}
    \cup {[cpu |-> NoValue, memory |-> memory] : memory \in MemoryRequests}
    \cup {[cpu |-> Number(75), memory |-> MemoryRequest("", 20, "gb", "")]}

InitResources ==
    /\ registry = <<>>
    /\ entryPointId = Null
    /\ functionConverter = NoConverter
    /\ files = {}
    /\ last = [op |-> "none", threw |-> FALSE]
    /\ fileSystem = <<>>
    /\ invocations = <<>>

NewTaskWithResourcesCall ==
    \E options \in ResourceOptions :
        /\ last' = [op |-> "newTaskWithResources", threw |-> FALSE,
                    options |-> options,
                    task |-> NewTaskWithResources(
                                 fileSystem, "custom-task",
                                 <<"path", "to", "task.js">>, options)]
        /\ UNCHANGED <<registry, entryPointId, functionConverter, files>>
        /\ UNCHANGED taskVars

NextResources == NewTaskWithResourcesCall

SpecResources == InitResources /\ [][NextResources]_vars

(* C19: the cpu of a task is the least multiple of 0.25 that is at least   *)
(* the requested value and at least 0.25, that is max(0.25, ceil(4r)/4),   *)
(* with no upper cap; it is 0.25 when no cpu is requested.                 *)
C19_CpuRoundedUp ==
    last.op = "newTaskWithResources" =>
        LET r == last.options.cpu
            cpu == last.task.cpu
        IN  IF r = NoValue THEN cpu = 25
            ELSE /\ cpu % 25 = 0
                 /\ cpu >= 25
                 /\ cpu >= r.value
                 /\ cpu = 25 \/ cpu - 25 < r.value

(* C19 witness: 1.7 CPUs requested, 1.75 allotted *)
C19_Witness ==
    /\ last.op = "newTaskWithResources"
    /\ last.options.cpu = Number(170)
    /\ last.task.cpu = 175

(* The request has the form number, unit *)
WellFormed(requested) ==
    /\ requested.sign = ""
    /\ requested.number >= 0
    /\ requested.unit \in {"mb", "gb", "tb", "MB", "GB", "TB"}
    /\ requested.rest = ""

(* The requested amount in tenths of a MiB *)
RequestedTenthsOfMib(requested) ==
    requested.number *
        (CASE requested.unit \in {"mb", "MB"} -> 1
           [] requested.unit \in {"gb", "GB"} -> 1024
           [] requested.unit \in {"tb", "TB"} -> 1048576)

(* C20: for a memory request of the form number, unit the memory of the    *)
(* task is the least multiple of 256 MiB that is at least the requested    *)
(* amount and at least 256 MiB, rendered in mb; for every other text it is *)
(* exactly 256mb.                                                          *)
C20_MemoryRoundedUp ==
    last.op = "newTaskWithResources" /\ last.options.memory # NoValue =>
        LET requested == last.options.memory
        IN  IF ~WellFormed(requested) THEN last.task.memory = "256mb"
            ELSE LET amount == RequestedTenthsOfMib(requested)
                 IN  \E k \in 1..((amount \div 2560) + 1) :
                         /\ last.task.memory = ToString(256 * k) \o "mb"
                         /\ 2560 * k >= amount
                         /\ k = 1 \/ 2560 * (k - 1) < amount

(* C20 witness: 1.1gb, 1126.4 MiB, becomes 1280mb *)
C20_Witness ==
    /\ last.op = "newTaskWithResources"
    /\ last.options.memory = MemoryRequest("", 11, "gb", "")
    /\ last.task.memory = "1280mb"

----------------------------------------------------------------------------
(* Task.run(): the modules a task file may hold, told apart by their text  *)

PyEcho == "def main(inputs): return inputs"

PyRaise == "def main(inputs): raise Exception('boom')"

PyWarn == "def main(inputs): sys.stderr.write('Warning'); return inputs"

PyExit == "def main(inputs): sys.exit(0)"

PyNaN == "def main(inputs): return float('nan')"

PyAbort == "def main(inputs): os.kill(os.getpid(), 9)"

PyNoMain == "def other(inputs): return inputs"

PyWarnOrExit ==
    "def main(inputs): return warn(inputs) if inputs['value'] == 1 else sys.exit(0)"

PyTexts == {PyEcho, PyRaise, PyWarn, PyExit, PyNaN, PyAbort, PyNoMain,
            PyWarnOrExit}

JsEcho == "exports.main = (inputs) => inputs"

JsThrowError == "exports.main = () => { throw new Error('Test error') }"

JsThrowText == "exports.main = () => { throw 'Test error' }"

JsThrowNotFound == "exports.main = () => { throw new Error(notFound) }"

JsNoMain == "exports.other = (inputs) => inputs"

JsSyntaxError == "exports.main = ("

JsTexts == {JsEcho, JsThrowError, JsThrowText, JsThrowNotFound, JsNoMain,
            JsSyntaxError}

(* Outcomes of a promise: rejected with an Error, rejected with a value    *)
(* that is no Error, resolved, or not settled yet.                         *)
RejectedError(message) == [settled |-> "rejected", error |-> TRUE,
                           message |-> message]

RejectedValue(value) == [settled |-> "rejected", error |-> FALSE,
                         value |-> value]

Resolved(value) == [settled |-> "resolved", value |-> value]

Pending == [settled |-> "pending"]

PathText(p) == ToString(p)

NotFoundMessage(task) ==
    "Function '" \o task.main \o "' not found in module '"
        \o PathText(task.filepath) \o "'"

(* What import() and the call of the entry point do for a module text:     *)
(* thrown is the value thrown (an Error with a message, or another value), *)
(* NoValue when the call returns.                                          *)
JsThrown(task, text) ==
    CASE text = JsSyntaxError ->
             [kind |-> "Error", message |-> "Unexpected end of input"]
      [] text = JsNoMain ->
             [kind |-> "Error", message |-> NotFoundMessage(task)]
      [] text = JsThrowError -> [kind |-> "Error", message |-> "Test error"]
      [] text = JsThrowNotFound ->
             [kind |-> "Error", message |-> NotFoundMessage(task)]
      [] text = JsThrowText -> [kind |-> "string", value |-> "Test error"]
      [] OTHER -> NoValue

(* A runJsTask that wraps whatever was thrown *)
RunJsTaskWrappingAll(task, text, inputs) ==
    LET thrown == JsThrown(task, text)
    IN  IF ~IsSet(thrown) THEN Resolved(inputs)
        ELSE RejectedError("Error executing task '" \o task.name \o "': "
                               \o (IF thrown.kind = "Error"
                                   THEN thrown.message ELSE thrown.value))

(* runJsTask: the catch wraps an Error and rethrows anything else *)
RunJsTask(task, text, inputs) ==
    LET thrown == JsThrown(task, text)
    IN  IF ~IsSet(thrown) THEN Resolved(inputs)
        ELSE IF thrown.kind = "Error"
        THEN RejectedError("Error executing task '" \o task.name \o "': "
                               \o thrown.message)
        ELSE RejectedValue(thrown.value)

(* An input file named after the directory alone *)
TempInputFileOfDirectory(task) ==
    Join(Dirname(task.filepath), "temp_input.json")

(* The temp files of runPythonTask, beside the task file, keyed by its id *)
TempInputFile(task) ==
    Join(Dirname(task.filepath), "temp_input_" \o task.id \o ".json")

TempOutputFile(task) ==
    Join(Dirname(task.filepath), "temp_output_" \o task.id \o ".json")

(* The message of the error exec() reports for a failed command *)
ExecErrorMessage == "Command failed: python -c"

(* The python -c script from the module on: what the process has done when *)
(* it exits, given the input it loaded. output is the text written to the  *)
(* output file, Absent when the script never opens it.                     *)
PythonScript(text, loaded) ==
    CASE text = PyEcho ->
             [failed |-> FALSE, stderr |-> "", output |-> loaded]
      [] text = PyWarn ->
             [failed |-> FALSE, stderr |-> "Warning", output |-> loaded]
      [] text = PyNaN ->
             [failed |-> FALSE, stderr |-> "", output |-> "NaN"]
      [] text = PyExit ->
             [failed |-> FALSE, stderr |-> "", output |-> Absent]
      [] text = PyWarnOrExit ->
             IF loaded = JsonStringify([value |-> 1])
             THEN [failed |-> FALSE, stderr |-> "Warning", output |-> loaded]
             ELSE [failed |-> FALSE, stderr |-> "", output |-> Absent]
      [] text = PyAbort ->
             [failed |-> TRUE, stderr |-> "", output |-> Absent]
      [] text = PyNoMain ->
             [failed |-> TRUE, stderr |-> "Function 'main' not found in module",
              output |-> Absent]
      [] OTHER ->
             [failed |-> TRUE, stderr |-> "Exception: boom", output |-> Absent]

(* An input JSON.stringify throws on *)
Unserializable == [kind |-> "bigint"]

Serializable(v) == v \in JsonValues

(* The catch of runPythonTask: both temp files removed if they exist *)
CleanUp(fs, task) ==
    LET fs1 == IF ExistsSync(fs, TempInputFile(task))
               THEN UnlinkSync(fs, TempInputFile(task)) ELSE fs
    IN  IF ExistsSync(fs1, TempOutputFile(task))
        THEN UnlinkSync(fs1, TempOutputFile(task)) ELSE fs1

(* A runPythonTask whose catch leaves the temp files behind *)
RunPythonTaskWithoutCleanUp(fs, task, inputs, spawnThrows) ==
    IF ~Serializable(inputs)
    THEN [fs |-> fs, spawned |-> FALSE,
          outcome |-> RejectedError("Error setting up Python task: "
                                        \o "Do not know how to serialize a BigInt")]
    ELSE LET fs1 == WriteFileSync(fs, TempInputFile(task), JsonStringify(inputs))
         IN  IF spawnThrows
             THEN [fs |-> fs1, spawned |-> FALSE,
                   outcome |-> RejectedError("Error setting up Python task: "
                                                 \o "spawn EAGAIN")]
             ELSE [fs |-> fs1, spawned |-> TRUE, outcome |-> Pending]

(* runPythonTask up to the return of exec(): the input file is written and *)
(* the process spawned, or the catch cleans up and rejects.                *)
RunPythonTask(fs, task, inputs, spawnThrows) ==
    IF ~Serializable(inputs)
    THEN [fs |-> CleanUp(fs, task), spawned |-> FALSE,
          outcome |-> RejectedError("Error setting up Python task: "
                                        \o "Do not know how to serialize a BigInt")]
    ELSE LET fs1 == WriteFileSync(fs, TempInputFile(task), JsonStringify(inputs))
         IN  IF spawnThrows
             THEN [fs |-> CleanUp(fs1, task), spawned |-> FALSE,
                   outcome |-> RejectedError("Error setting up Python task: "
                                                 \o "spawn EAGAIN")]
             ELSE [fs |-> fs1, spawned |-> TRUE, outcome |-> Pending]

(* A callback that looks at stderr only when the process failed *)
ExecCallbackIgnoringStderr(fs, inv) ==
    LET fs1 == IF ExistsSync(fs, TempInputFile(inv.task))
               THEN UnlinkSync(fs, TempInputFile(inv.task)) ELSE fs
        out == TempOutputFile(inv.task)
    IN  IF inv.error
        THEN [fs |-> fs1,
              outcome |-> RejectedError(
                  "Error executing Python task: "
                      \o (IF inv.stderr # "" THEN inv.stderr ELSE ExecErrorMessage))]
        ELSE IF ~ExistsSync(fs1, out)
        THEN [fs |-> fs1,
              outcome |-> RejectedError("Python task did not produce an output file")]
        ELSE IF ~JsonParses(fs1[out])
        THEN [fs |-> fs1,
              outcome |-> RejectedError("Error processing Python task results: "
                                            \o "Unexpected token")]
        ELSE [fs |-> UnlinkSync(fs1, out), outcome |-> Resolved(JsonParse(fs1[out]))]

(* The callback of exec(), called with inv.error and inv.stderr *)
ExecCallback(fs, inv) ==
    LET fs1 == IF ExistsSync(fs, TempInputFile(inv.task))
               THEN UnlinkSync(fs, TempInputFile(inv.task)) ELSE fs
        out == TempOutputFile(inv.task)
    IN  IF inv.error
        THEN [fs |-> fs1,
              outcome |-> RejectedError(
                  "Error executing Python task: "
                      \o (IF inv.stderr # "" THEN inv.stderr ELSE ExecErrorMessage))]
        ELSE IF inv.stderr # ""
        THEN [fs |-> fs1,
              outcome |-> RejectedError("Error in Python task: " \o inv.stderr)]
        ELSE IF ~ExistsSync(fs1, out)
        THEN [fs |-> fs1,
              outcome |-> RejectedError("Python task did not produce an output file")]
        ELSE IF ~JsonParses(fs1[out])
        THEN [fs |-> fs1,
              outcome |-> RejectedError("Error processing Python task results: "
                                            \o "Unexpected token")]
        ELSE [fs |-> UnlinkSync(fs1, out), outcome |-> Resolved(JsonParse(fs1[out]))]

(* A run() that hands every runtime but python to runJsTask *)
RunDefaultingToJs(fs, task, inputs, spawnThrows) ==
    IF ~ExistsSync(fs, task.filepath)
    THEN [fs |-> fs, spawned |-> FALSE, io |-> {"fs.existsSync"},
          outcome |-> RejectedError("Task file not found: "
                                        \o PathText(task.filepath))]
    ELSE IF task.environment.type = "python"
    THEN LET r == RunPythonTask(fs, task, inputs, spawnThrows)
         IN  [fs |-> r.fs, spawned |-> r.spawned, outcome |-> r.outcome,
              io |-> {"fs.existsSync", "import", "fs.writeFileSync", "exec"}]
    ELSE [fs |-> fs, spawned |-> FALSE, io |-> {"fs.existsSync", "import"},
          outcome |-> RunJsTask(task, fs[task.filepath], inputs)]

(* run(inputs) up to the return of exec(): io names the calls of the path  *)
(* taken that reach outside the process (file system, module loader,       *)
(* child process).                                                         *)
Run(fs, task, inputs, spawnThrows) ==
    IF ~ExistsSync(fs, task.filepath)
    THEN [fs |-> fs, spawned |-> FALSE, io |-> {"fs.existsSync"},
          outcome |-> RejectedError("Task file not found: "
                                        \o PathText(task.filepath))]
    ELSE IF task.environment.type \in {"javascript", "typescript"}
    THEN [fs |-> fs, spawned |-> FALSE, io |-> {"fs.existsSync", "import"},
          outcome |-> RunJsTask(task, fs[task.filepath], inputs)]
    ELSE IF task.environment.type = "python"
    THEN LET r == RunPythonTask(fs, task, inputs, spawnThrows)
         IN  [fs |-> r.fs, spawned |-> r.spawned, outcome |-> r.outcome,
              io |-> {"fs.existsSync", "import", "fs.writeFileSync", "exec"}]
    ELSE [fs |-> fs, spawned |-> FALSE, io |-> {"fs.existsSync"},
          outcome |-> RejectedError("Unsupported task environment: "
                                        \o task.environment.type)]

----------------------------------------------------------------------------
(* SpecBridge: invocations of Task.run(). A Python invocation is in flight *)
(* from the return of exec() to its callback; its process loads the input  *)
(* file when it starts and writes the output file when it exits, and runs  *)
(* on its own between the two.                                             *)

(* Invocations in flight at the same time *)
MaxInvocations == 2

ProjectDir == <<"proj">>

BridgeManifests ==
    [p \in {Join(ProjectDir, "package.json"), Join(ProjectDir, "requirements.txt")}
        |-> IF Basename(p) = "package.json"
            THEN JsonStringify([name |-> "chainos"]) ELSE ""]

(* The disk holds the manifests and at most one task file *)
BridgeDisks ==
    {BridgeManifests,
     WriteFileSync(BridgeManifests, Join(ProjectDir, "task.txt"), "not a task")}
    \cup {WriteFileSync(BridgeManifests, Join(ProjectDir, "task.py"), text) :
             text \in PyTexts}
    \cup {WriteFileSync(BridgeManifests, Join(ProjectDir, "task.js"), text) :
             text \in JsTexts}

(* Two Task objects for the Python file, one for each other file *)
BridgeTasks ==
    {Task(BridgeManifests, Join(ProjectDir, "task.py"), NoTaskOptions, id) :
        id \in Uuids}
    \cup {Task(BridgeManifests, Join(ProjectDir, name), NoTaskOptions, "0b1c") :
             name \in {"task.js", "task.txt"}}

Inputs == {[value |-> 1], [value |-> 2], Unserializable}

InitBridge ==
    /\ registry = <<>>
    /\ entryPointId = Null
    /\ functionConverter = NoConverter
    /\ files = {}
    /\ last = [op |-> "none", threw |-> FALSE]
    /\ fileSystem \in BridgeDisks
    /\ invocations = <<>>

Invocation(task, inputs) ==
    [task |-> task, inputs |-> inputs, pc |-> "spawned", loaded |-> "",
     error |-> FALSE, stderr |-> ""]

(* A callback after which the invocation is still in flight *)
RemoveNone(seq, i) == seq

Remove(seq, i) == SubSeq(seq, 1, i - 1) \o SubSeq(seq, i + 1, Len(seq))

(* The calls of run(): any input for a Python task, with exec() throwing   *)
(* or not once the input is written; one input for the tasks that never    *)
(* serialize it.                                                           *)
RunArguments ==
    {[task |-> task, inputs |-> inputs, spawnThrows |-> spawnThrows] :
        task \in {t \in BridgeTasks : t.environment.type = "python"},
        inputs \in Inputs, spawnThrows \in BOOLEAN}
    \cup {[task |-> task, inputs |-> [value |-> 1], spawnThrows |-> FALSE] :
              task \in BridgeTasks}

(* task.run(inputs) *)
RunCall ==
    \E call \in RunArguments :
        LET task == call.task
            inputs == call.inputs
            spawnThrows == call.spawnThrows
            r == Run(fileSystem, task, inputs, spawnThrows)
        IN  /\ call.spawnThrows => Serializable(inputs)
            /\ r.spawned => Len(invocations) < MaxInvocations
            /\ fileSystem' = r.fs
            /\ invocations' = IF r.spawned
                              THEN Append(invocations, Invocation(task, inputs))
                              ELSE invocations
            /\ last' = [op |-> "run", threw |-> r.outcome.settled = "rejected",
                        task |-> task, inputs |-> inputs, io |-> r.io,
                        outcome |-> r.outcome]
            /\ UNCHANGED <<registry, entryPointId, functionConverter, files>>

(* The python process opens and loads the input file *)
ProcessStart ==
    \E i \in 1..Len(invocations) :
        LET inv == invocations[i]
            input == TempInputFile(inv.task)
        IN  /\ inv.pc = "spawned"
            /\ invocations' =
                   [invocations EXCEPT ![i] =
                       IF ExistsSync(fileSystem, input)
                       THEN [inv EXCEPT !.pc = "running",
                                        !.loaded = fileSystem[input]]
                       ELSE [inv EXCEPT !.pc = "exited", !.error = TRUE,
                                        !.stderr = "FileNotFoundError"]]
            /\ last' = [op |-> "processStart", threw |-> FALSE,
                        task |-> inv.task]
            /\ UNCHANGED <<registry, entryPointId, functionConverter, files,
                           fileSystem>>

(* The python process runs the module to its end and exits *)
ProcessExit ==
    \E i \in 1..Len(invocations) :
        LET inv == invocations[i]
            done == PythonScript(fileSystem[inv.task.filepath], inv.loaded)
        IN  /\ inv.pc = "running"
            /\ fileSystem' =
                   IF done.output # Absent
                   THEN WriteFileSync(fileSystem, TempOutputFile(inv.task),
                                      done.output)
                   ELSE fileSystem
            /\ invocations' =
                   [invocations EXCEPT ![i] =
                       [inv EXCEPT !.pc = "exited", !.error = done.failed,
                                   !.stderr = done.stderr]]
            /\ last' = [op |-> "processExit", threw |-> FALSE,
                        task |-> inv.task]
            /\ UNCHANGED <<registry, entryPointId, functionConverter, files>>

(* exec() calls back and the invocation settles *)
ExecCallbackCall ==
    \E i \in 1..Len(invocations) :
        LET inv == invocations[i]
            r == ExecCallback(fileSystem, inv)
        IN  /\ inv.pc = "exited"
            /\ fileSystem' = r.fs
            /\ invocations' = Remove(invocations, i)
            /\ last' = [op |-> "callback", threw |-> r.outcome.settled = "rejected",
                        task |-> inv.task, inputs |-> inv.inputs,
                        error |-> inv.error, stderr |-> inv.stderr,
                        outcome |-> r.outcome]
            /\ UNCHANGED <<registry, entryPointId, functionConverter, files>>

(* SpecSequential: a caller that awaits every run() before the next one,  *)
(* so that no two invocations are in flight at the same time. The event    *)
(* loop calls the callback of exec() once the process has exited; nothing  *)
(* makes a process start or exit.                                          *)
RunAloneCall ==
    /\ invocations = <<>>
    /\ RunCall

NextSequential ==
    \/ RunAloneCall
    \/ ProcessStart
    \/ ProcessExit
    \/ ExecCallbackCall

SpecSequential ==
    InitBridge /\ [][NextSequential]_vars /\ WF_vars(ExecCallbackCall)

NextBridge ==
    \/ RunCall
    \/ ProcessStart
    \/ ProcessExit
    \/ ExecCallbackCall

SpecBridge == InitBridge /\ [][NextBridge]_vars

----------------------------------------------------------------------------
(* Properties of the execution bridge *)

ExecutingPython == "Error executing Python task: "

(* C11 as stated: when the process has completed, a process error rejects  *)
(* with 'Error executing Python task' and the captured stderr; otherwise a *)
(* non-empty stderr rejects with 'Error in Python task'; otherwise a       *)
(* missing output file rejects with 'did not produce an output file';      *)
(* otherwise the invocation resolves with the deserialized output file.    *)
C11_OutcomeOrder ==
    [][last'.op = "callback" =>
         LET o == last'.outcome
             out == TempOutputFile(last'.task)
         IN  IF last'.error
             THEN o \in {RejectedError(ExecutingPython \o last'.stderr),
                         RejectedError(ExecutingPython \o ExecErrorMessage)}
             ELSE IF last'.stderr # ""
             THEN o = RejectedError("Error in Python task: " \o last'.stderr)
             ELSE IF ~ExistsSync(fileSystem, out)
             THEN o = RejectedError("Python task did not produce an output file")
             ELSE /\ o.settled = "resolved"
                  /\ JsonStringify(o.value) = fileSystem[out]]_vars

(* C11 amended: the same order, with one more case before the last: an     *)
(* output file that exists but does not deserialize rejects with 'Error    *)
(* processing Python task results'; only otherwise does the invocation     *)
(* resolve with the deserialized output file.                              *)
C11_OutcomeOrderWithUnreadableOutput ==
    [][last'.op = "callback" =>
         LET o == last'.outcome
             out == TempOutputFile(last'.task)
         IN  IF last'.error
             THEN o = RejectedError(ExecutingPython \o
                          (IF last'.stderr # "" THEN last'.stderr
                           ELSE ExecErrorMessage))
             ELSE IF last'.stderr # ""
             THEN o = RejectedError("Error in Python task: " \o last'.stderr)
             ELSE IF ~ExistsSync(fileSystem, out)
             THEN o = RejectedError("Python task did not produce an output file")
             ELSE IF ~JsonParses(fileSystem[out])
             THEN o = RejectedError("Error processing Python task results: "
                                        \o "Unexpected token")
             ELSE /\ o.settled = "resolved"
                  /\ JsonStringify(o.value) = fileSystem[out]]_vars

(* C11 witness: a clean exit without stderr whose output file holds NaN,   *)
(* rejected as a processing error.                                         *)
C11_Witness ==
    /\ last.op = "callback"
    /\ ~last.error
    /\ last.stderr = ""
    /\ fileSystem[last.task.filepath] = PyNaN
    /\ last.outcome = RejectedError("Error processing Python task results: "
                                        \o "Unexpected token")

(* The last call was a run() of a Python task that got as far as           *)
(* runPythonTask and was rejected there, before exec() returned.           *)
SetupRejected ==
    /\ last.op = "run"
    /\ last.task.environment.type = "python"
    /\ last.outcome.settled = "rejected"
    /\ ExistsSync(fileSystem, last.task.filepath)

(* C12: when a Python invocation settles its input file does not exist,    *)
(* whatever the outcome; after it resolved its output file does not exist; *)
(* and when writing the input or spawning the process threw, neither temp  *)
(* file exists when the invocation rejects.                                *)
C12_TempFilesRemoved ==
    /\ last.op = "callback" =>
           /\ ~ExistsSync(fileSystem, TempInputFile(last.task))
           /\ last.outcome.settled = "resolved" =>
                  ~ExistsSync(fileSystem, TempOutputFile(last.task))
    /\ SetupRejected =>
           /\ ~ExistsSync(fileSystem, TempInputFile(last.task))
           /\ ~ExistsSync(fileSystem, TempOutputFile(last.task))

(* C12 witness: the process could not be spawned; the invocation is        *)
(* rejected while another invocation of a different Task is in flight with *)
(* its input file on disk.                                                 *)
C12_Witness ==
    /\ SetupRejected
    /\ last.outcome = RejectedError("Error setting up Python task: spawn EAGAIN")
    /\ \E i \in 1..Len(invocations) :
           /\ invocations[i].task.id # last.task.id
           /\ ExistsSync(fileSystem, TempInputFile(invocations[i].task))

Unsupported == RejectedError("Unsupported task environment: unknown")

(* C13 as stated: invoking a task of unknown runtime fails with the        *)
(* unsupported-environment error and attempts no I/O, whether or not the   *)
(* task's file exists.                                                     *)
C13_UnknownFailsWithoutIO ==
    last.op = "run" /\ last.task.environment.type = "unknown" =>
        /\ last.outcome = Unsupported
        /\ last.io = {}

(* C13 amended: invoking a task of unknown runtime checks that the task's  *)
(* file exists and does no other I/O; it fails with the unsupported-       *)
(* environment error when the file exists and with 'Task file not found'   *)
(* when it does not, and leaves disk and invocations in flight as they     *)
(* were.                                                                   *)
C13_UnknownFailsAfterFileCheck ==
    [][last'.op = "run" /\ last'.task.environment.type = "unknown" =>
         /\ last'.io = {"fs.existsSync"}
         /\ fileSystem' = fileSystem
         /\ invocations' = invocations
         /\ last'.outcome =
                IF ExistsSync(fileSystem, last'.task.filepath)
                THEN Unsupported
                ELSE RejectedError("Task file not found: "
                                       \o PathText(last'.task.filepath))]_vars

(* C13 witness: the file of the task exists and the call is rejected as    *)
(* unsupported.                                                            *)
C13_Witness ==
    /\ last.op = "run"
    /\ last.task.environment.type = "unknown"
    /\ ExistsSync(fileSystem, last.task.filepath)
    /\ last.outcome = Unsupported


(* The last call ran a javascript or typescript task whose module threw    *)
(* while it was loaded or called.                                          *)
JsTaskThrew(outcome) ==
    /\ outcome.op = "run"
    /\ outcome.task.environment.type \in {"javascript", "typescript"}
    /\ ExistsSync(fileSystem, outcome.task.filepath)
    /\ IsSet(JsThrown(outcome.task, fileSystem[outcome.task.filepath]))

Wrapped(task, message) ==
    RejectedError("Error executing task '" \o task.name \o "': " \o message)

(* C14 as stated: whatever value the module throws while it is loaded or   *)
(* called, the caller gets the task-execution error 'Error executing task  *)
(* <name>: <original message>', never the thrown value itself.             *)
C14_AlwaysWrapped ==
    JsTaskThrew(last) =>
        LET thrown == JsThrown(last.task, fileSystem[last.task.filepath])
        IN  last.outcome =
                Wrapped(last.task, IF thrown.kind = "Error"
                                   THEN thrown.message ELSE thrown.value)

(* C14 amended: an Error thrown while the module is loaded or called is    *)
(* re-raised as the task-execution error 'Error executing task <name>:     *)
(* <original message>'; a thrown value that is not an Error reaches the    *)
(* caller as it was thrown.                                                *)
C14_ErrorsWrapped ==
    JsTaskThrew(last) =>
        LET thrown == JsThrown(last.task, fileSystem[last.task.filepath])
        IN  last.outcome =
                IF thrown.kind = "Error"
                THEN Wrapped(last.task, thrown.message)
                ELSE RejectedValue(thrown.value)

(* C14 witness: the module threw a string and the caller got the string *)
C14_Witness ==
    /\ JsTaskThrew(last)
    /\ fileSystem[last.task.filepath] = JsThrowText
    /\ last.outcome = RejectedValue("Test error")

(* The reports the bridge can give in each failure scenario *)
PythonTasks == {t \in BridgeTasks : t.environment.type = "python"}

JsTasks == {t \in BridgeTasks : t.environment.type \in {"javascript", "typescript"}}

StderrTexts == {"Warning", "Exception: boom", "FileNotFoundError",
                "Function 'main' not found in module"}

Exited(task, error, stderr) ==
    [task |-> task, inputs |-> [value |-> 1], pc |-> "exited", loaded |-> "",
     error |-> error, stderr |-> stderr]

FailureReports(scenario) ==
    CASE scenario = "missing file" ->
             {Run(BridgeManifests, t, [value |-> 1], FALSE).outcome :
                 t \in BridgeTasks}
      [] scenario = "missing export" ->
             {RunJsTask(t, JsNoMain, [value |-> 1]) : t \in JsTasks}
      [] scenario = "task exception" ->
             {RunJsTask(t, text, [value |-> 1]) :
                 t \in JsTasks,
                 text \in {JsThrowError, JsThrowText, JsThrowNotFound}}
      [] scenario = "python exit" ->
             {ExecCallback(BridgeManifests, Exited(t, TRUE, stderr)).outcome :
                 t \in PythonTasks, stderr \in StderrTexts \cup {""}}
      [] scenario = "python stderr" ->
             {ExecCallback(BridgeManifests, Exited(t, FALSE, stderr)).outcome :
                 t \in PythonTasks, stderr \in StderrTexts}
      [] scenario = "no output" ->
             {ExecCallback(BridgeManifests, Exited(t, FALSE, "")).outcome :
                 t \in PythonTasks}

Scenarios == {"missing file", "missing export", "task exception",
              "python exit", "python stderr", "no output"}

(* The failure scenario the last call was in, "none" if in none of the six *)
ScenarioOf(outcome) ==
    IF outcome.op = "run"
    THEN IF ~ExistsSync(fileSystem, outcome.task.filepath) THEN "missing file"
         ELSE IF ~JsTaskThrew(outcome) THEN "none"
         ELSE IF fileSystem[outcome.task.filepath] = JsNoMain
         THEN "missing export"
         ELSE IF fileSystem[outcome.task.filepath] = JsSyntaxError THEN "none"
         ELSE "task exception"
    ELSE IF outcome.op = "callback"
    THEN IF outcome.error THEN "python exit"
         ELSE IF outcome.stderr # "" THEN "python stderr"
         ELSE IF outcome.outcome =
                     RejectedError("Python task did not produce an output file")
         THEN "no output"
         ELSE "none"
    ELSE "none"

(* C15: a failure in one of the six scenarios (missing task file, missing  *)
(* entry-point export, exception thrown inside the in-process task, Python *)
(* non-zero exit, Python stderr with a clean exit, Python missing output   *)
(* file) is reported in a form that none of the other five can produce;    *)
(* in particular a missing export is never reported as an exception of the *)
(* task's own code can be.                                                 *)
C15_DistinctReports ==
    ScenarioOf(last) # "none" =>
        \A other \in Scenarios \ {ScenarioOf(last)} :
            last.outcome \notin FailureReports(other)

(* The temp files of a task *)
TempFiles(task) == {TempInputFile(task), TempOutputFile(task)}

BridgeOps == {"run", "processStart", "processExit", "callback"}

(* C16: the temp files are named after the task id alone, so that two      *)
(* invocations of one Task share them (the witness is an invocation that   *)
(* resolves with what the other one was given), while no step of an        *)
(* invocation creates, rewrites or deletes the temp files of a task with a *)
(* different id.                                                           *)
C16_TempFilesKeyedById ==
    [][last'.op \in BridgeOps =>
         \A u \in BridgeTasks :
             /\ u.id = last'.task.id /\ u.filepath = last'.task.filepath =>
                    TempFiles(u) = TempFiles(last'.task)
             /\ u.id # last'.task.id =>
                    \A p \in TempFiles(u) :
                        /\ ExistsSync(fileSystem', p) <=> ExistsSync(fileSystem, p)
                        /\ ExistsSync(fileSystem, p) =>
                               fileSystem'[p] = fileSystem[p]]_vars

(* C16 witness: two invocations of the same Task were in flight; the one   *)
(* that settles runs a module that returns its input, and resolves with    *)
(* the input of the other.                                                 *)
C16_Witness ==
    /\ last.op = "callback"
    /\ fileSystem[last.task.filepath] = PyEcho
    /\ last.outcome.settled = "resolved"
    /\ last.outcome.value # last.inputs
    /\ \E i \in 1..Len(invocations) : invocations[i].task = last.task


----------------------------------------------------------------------------
(* Properties of the compiled node and edge lists *)

(* C21: the compiled edge list never contains two edges with the same      *)
(* (source, target) pair, also when an entry's targets list names the same *)
(* id more than once.                                                      *)
C21_EdgesDeduplicated ==
    Compiled =>
        \A i, j \in 1..Len(last.document.edges) :
            last.document.edges[i] = last.document.edges[j] => i = j


KeySeq(reg) == [i \in 1..Len(reg) |-> reg[i].id]

IsPrefix(s, t) == Len(s) <= Len(t) /\ \A i \in 1..Len(s) : s[i] = t[i]

(* The place of a processing node in the order of the claim: the position  *)
(* of its parent in the registry, preprocessing before postprocessing.     *)
Rank(reg, node) ==
    2 * (CHOOSE i \in 1..Len(reg) : reg[i].id = node.parentId)
        + (IF node.type = "preprocessing" THEN 0 ELSE 1)

(* C22: the ids of the registry keep the order of their first registration *)
(* (registering an existing id again adds no key and moves none), and the  *)
(* compiled node list is one primary node per registry id in that order,   *)
(* followed by the processing nodes in the same entry order, an entry's    *)
(* preprocessing node before its postprocessing node.                      *)
C22_NodeOrder ==
    [][/\ IsPrefix(KeySeq(registry), KeySeq(registry'))
       /\ \A i, j \in 1..Len(registry') :
              registry'[i].id = registry'[j].id => i = j
       /\ last'.op = "compile" =>
            LET reg == registry'
                nodes == last'.document.nodes
                n == Len(reg)
            IN  /\ Len(nodes) >= n
                /\ \A i \in 1..n :
                     nodes[i].id = reg[i].id /\ nodes[i].type = "task"
                /\ \A k \in (n + 1)..Len(nodes) :
                     /\ nodes[k].type \in ProcessingTypes
                     /\ Has(reg, nodes[k].parentId)
                     /\ nodes[k].id = nodes[k].parentId \o "_" \o nodes[k].type
                     /\ IsSet(IF nodes[k].type = "preprocessing"
                              THEN Get(reg, nodes[k].parentId).preprocessing
                              ELSE Get(reg, nodes[k].parentId).postprocessing)
                /\ \A k, l \in (n + 1)..Len(nodes) :
                     k < l => Rank(reg, nodes[k]) < Rank(reg, nodes[l])
                /\ Len(nodes) = n
                     + Cardinality({i \in 1..n : IsSet(reg[i].preprocessing)})
                     + Cardinality({i \in 1..n : IsSet(reg[i].postprocessing)})]_vars

(* C22 witness: a compiled chain of two entries, registered b first, where *)
(* b has postprocessing only and a has both steps.                         *)
C22_Witness ==
    /\ Compiled
    /\ KeySeq(registry) = <<"b", "a">>
    /\ ~IsSet(registry[1].preprocessing)
    /\ IsSet(registry[1].postprocessing)
    /\ IsSet(registry[2].preprocessing)
    /\ IsSet(registry[2].postprocessing)
    /\ Len(last.document.nodes) = 5


(* The positions in the edge list of the edges leaving / entering a node id *)
Outgoing(document, id) ==
    {i \in 1..Len(document.edges) : document.edges[i].source = id}

Incoming(document, id) ==
    {i \in 1..Len(document.edges) : document.edges[i].target = id}

(* C23: in every compiled graph each preprocessing node has exactly one    *)
(* outgoing edge, to its parent node, and each postprocessing node has     *)
(* exactly one incoming edge, from its parent node, whatever targets the   *)
(* other registry entries declare.                                         *)
C23_ProcessingNodeEdges ==
    Compiled =>
        LET document == last.document
        IN  \A k \in 1..Len(document.nodes) :
                LET node == document.nodes[k]
                IN  /\ node.type = "preprocessing" =>
                         /\ Cardinality(Outgoing(document, node.id)) = 1
                         /\ \A i \in Outgoing(document, node.id) :
                                document.edges[i].target = node.parentId
                    /\ node.type = "postprocessing" =>
                         /\ Cardinality(Incoming(document, node.id)) = 1
                         /\ \A i \in Incoming(document, node.id) :
                                document.edges[i].source = node.parentId

(* C23 on the registries whose ids are not synthetic node ids *)
ProcessingNodeEdgesWithoutSyntheticIds ==
    NoSyntheticIdRegistered => C23_ProcessingNodeEdges


(* C27: the node ids of a compiled graph are pairwise distinct, also when  *)
(* a registered id equals another entry's id with the suffix               *)
(* '_preprocessing' or '_postprocessing'.                                  *)
C27_NodeIdsDistinct ==
    Compiled =>
        \A k, l \in 1..Len(last.document.nodes) :
            last.document.nodes[k].id = last.document.nodes[l].id => k = l


----------------------------------------------------------------------------
(* Properties of materialization *)

(* The paths functionToTask can give a file generated under the options *)
PathsUnder(options) ==
    {Or(options.outputDir, DefaultFunctionsDir) \o "/"
         \o Or(options.namePrefix, "processor_") \o t \o "_" \o p \o "_" \o r
         \o Or(options.extension, ".js") :
       t \in ProcessingTypes, p \in Ids, r \in RandomIds}

(* C24: every call materializeProcessingFunctions(options) stores the      *)
(* files it generates under that call's outputDir, with that call's        *)
(* extension and namePrefix, also when the chain was materialized before.  *)
C24_OptionsHonoured ==
    [][last'.op = "materialize" =>
         (files' \ files) \subseteq PathsUnder(last'.options)]_vars


----------------------------------------------------------------------------
(* Properties of the upward search *)

(* The result of the last search lies in the k-th ancestor of its start *)
FoundAt(k) ==
    \E i \in 1..Len(last.filenames) :
        last.result = Join(Ancestor(last.startDir, k), last.filenames[i])

(* C25: findFileUpwards(names, startDir, maxDepth) traverses at most       *)
(* maxDepth levels upwards from startDir: the nearest candidate, k levels  *)
(* above startDir (k = 0 for startDir itself), is found whenever           *)
(* k <= maxDepth and is never found when k > maxDepth; the search ends at  *)
(* the file-system root at the latest.                                     *)
C25_TraversesMaxDepthLevels ==
    last.op = "findFileUpwards" =>
        LET hits == LevelsWith(fileSystem, last.filenames, last.startDir,
                               Len(last.startDir) + 1)
        IN  IF hits # {} /\ Nearest(hits) <= last.maxDepth
            THEN FoundAt(Nearest(hits))
            ELSE last.result = Undefined


----------------------------------------------------------------------------
(* getMaterializedFunctions() *)

F4 == Fn("f4", "(input) => ({ ...input, postprocessed: true })")

F5 == Fn("f5", "(input) => ({ ...input, postprocessed: 1 })")

(* source.substring(0, 30) on the sources of the model: the first thirty   *)
(* characters, the whole text when it is shorter.                          *)
Substring30(source) ==
    CASE source = F4.source -> "(input) => ({ ...input, postpr"
      [] source = F5.source -> "(input) => ({ ...input, postpr"
      [] OTHER -> source

(* The key of a conversion in the object returned *)
FnSource(source) == Substring30(source) \o "..."

(* result[key] = value on an object, modelled as its properties in the     *)
(* order they were created.                                                *)
ObjectSet(object, key, value) ==
    IF \E k \in 1..Len(object) : object[k].key = key
    THEN [k \in 1..Len(object) |->
             IF object[k].key = key THEN [key |-> key, value |-> value]
             ELSE object[k]]
    ELSE Append(object, [key |-> key, value |-> value])

ConversionRecord(conversionData) ==
    [task |-> conversionData.task.id,
     filePath |-> conversionData.filePath,
     functionName |-> conversionData.functionName]

RECURSIVE ConversionRecords(_, _)
ConversionRecords(conversions, n) ==
    IF n = 0 THEN <<>>
    ELSE ObjectSet(ConversionRecords(conversions, n - 1),
                   FnSource(conversions[n].fn.source),
                   ConversionRecord(conversions[n].result))

GetMaterializedFunctions(conv) ==
    IF ~IsSet(conv) THEN NoValue
    ELSE [kind |-> "object",
          properties |-> ConversionRecords(conv.conversions,
                                           Len(conv.conversions))]

(* SpecMaterialized: a chain whose processing steps are functions, some of *)
(* them alike in their source, materialized and asked for its materialized *)
(* functions in any order.                                                 *)

FunctionEntries ==
    {Entry(id, T1, Absent, pre, post, [defined |-> FALSE, list |-> <<>>]) :
        id \in ChainIds,
        pre \in {NoValue, F1, F3},
        post \in {NoValue, F4, F5, P1}}

FunctionSuffixes == [1..(2 * MaxEntries) -> ChainRandomIds]

InitMaterialized ==
    /\ registry \in Registries(FunctionEntries)
    /\ entryPointId = Null
    /\ functionConverter = NoConverter
    /\ files = {}
    /\ last = Chained
    /\ fileSystem = <<>>
    /\ invocations = <<>>

(* register() on a chain that was materialized, for as long as its         *)
(* converter holds fewer than MaxConversions conversions.                  *)
RegisterFunctionCall ==
    /\ IsSet(functionConverter)
    /\ Len(functionConverter.conversions) < MaxConversions
    /\ \E entry \in FunctionEntries : Register(entry)

MaterializeFunctionsCall ==
    \E options \in OptionValues, rnds \in FunctionSuffixes :
        Materialize(options, rnds)

CompileMaterializedFunctionsCall ==
    \E rnds \in FunctionSuffixes : Compile(TRUE, rnds)

GetMaterializedFunctionsCall ==
    /\ last' = [op |-> "getMaterializedFunctions", threw |-> FALSE,
                result |-> GetMaterializedFunctions(functionConverter)]
    /\ UNCHANGED <<registry, entryPointId, functionConverter, files>>
    /\ UNCHANGED taskVars

NextMaterialized ==
    \/ RegisterFunctionCall
    \/ MaterializeFunctionsCall
    \/ CompileMaterializedFunctionsCall
    \/ GetMaterializedFunctionsCall

SpecMaterialized == InitMaterialized /\ [][NextMaterialized]_vars


(* C26: getMaterializedFunctions() returns null exactly when no            *)
(* materialization has ever been run on the chain (only a materialization  *)
(* gives the chain its converter, and it always does), and otherwise an    *)
(* object holding one record per distinct callback converted so far, an    *)
(* empty object when nothing was converted.                                *)
C26_RecordPerCallback ==
    [][/\ Materialized(last') => IsSet(functionConverter')
       /\ ~Materialized(last') => functionConverter' = functionConverter
       /\ last'.op = "getMaterializedFunctions" =>
            /\ last'.result = NoValue <=> ~IsSet(functionConverter)
            /\ IsSet(functionConverter) =>
                 LET conversions == functionConverter.conversions
                     properties == last'.result.properties
                 IN  /\ Len(properties) = Len(conversions)
                     /\ \A k \in 1..Len(conversions) :
                          \E p \in 1..Len(properties) :
                              /\ properties[p].value.task =
                                     conversions[k].result.task.id
                              /\ properties[p].value.filePath =
                                     conversions[k].result.filePath
                              /\ properties[p].value.functionName =
                                     conversions[k].result.functionName]_vars


----------------------------------------------------------------------------
(* Properties of sequential invocations *)

(* What the process of the invocation in flight wrote to its output file,  *)
(* Absent if it wrote none.                                                *)
Written(inv) ==
    IF inv.loaded = "" THEN Absent
    ELSE PythonScript(fileSystem[inv.task.filepath], inv.loaded).output

(* C28: for Python invocations of one task that do not overlap, an         *)
(* invocation resolves only with the value its own process wrote during    *)
(* that invocation, never with an output file an earlier invocation left   *)
(* behind, and an invocation whose process exits cleanly, silently and     *)
(* without writing output rejects with the missing-output error.           *)
C28_OwnOutputOnly ==
    [][last'.op = "callback" =>
         LET inv == invocations[1]
         IN  /\ last'.outcome.settled = "resolved" =>
                  /\ Written(inv) # Absent
                  /\ JsonStringify(last'.outcome.value) = Written(inv)
             /\ (~inv.error /\ inv.stderr = "" /\ Written(inv) = Absent) =>
                  last'.outcome =
                      RejectedError("Python task did not produce an output file")]_vars

(* C29: after a Python invocation has settled, with any outcome, neither   *)
(* temp_input_<id>.json nor temp_output_<id>.json remains in the task's    *)
(* directory.                                                              *)
C29_NoTempFilesRemain ==
    (last.op = "callback" \/ SetupRejected) =>
        /\ ~ExistsSync(fileSystem, TempInputFile(last.task))
        /\ ~ExistsSync(fileSystem, TempOutputFile(last.task))


(* The order of the positions of an invocation: spawned, running, exited *)
PcRank(pc) == CASE pc = "spawned" -> 0 [] pc = "running" -> 1 [] OTHER -> 2

(* One step of the bridge, as C30 allows it: a run() spawns at most one    *)
(* process; a callback settles one invocation whose process has exited,    *)
(* with a resolution or a rejection, and takes it out of flight; no other  *)
(* step takes an invocation out of flight, and a process never goes back   *)
(* to an earlier position.                                                 *)
SettlesOnceStep ==
    LET n == Len(invocations)
    IN  /\ last'.op = "run" =>
             \/ invocations' = invocations
             \/ /\ Len(invocations') = n + 1
                /\ SubSeq(invocations', 1, n) = invocations
                /\ invocations'[n + 1].pc = "spawned"
                /\ last'.outcome = Pending
        /\ last'.op = "callback" =>
             /\ last'.outcome.settled \in {"resolved", "rejected"}
             /\ Len(invocations') = n - 1
             /\ \E i \in 1..n :
                    /\ invocations[i].pc = "exited"
                    /\ invocations[i].task = last'.task
                    /\ \A k \in 1..(n - 1) :
                           invocations'[k] =
                               IF k < i THEN invocations[k] ELSE invocations[k + 1]
        /\ last'.op \in {"processStart", "processExit"} =>
             /\ Len(invocations') = n
             /\ \A k \in 1..n :
                    /\ invocations'[k].task = invocations[k].task
                    /\ PcRank(invocations'[k].pc) >= PcRank(invocations[k].pc)

(* The step of C30 with any number of invocations in flight *)
SettlesOnceInFlight == [][SettlesOnceStep]_vars

(* C30: every Python invocation spawns at most one process and settles     *)
(* exactly once: it stays in flight for as long as its process has not     *)
(* exited, and once the process has exited it is eventually resolved or    *)
(* rejected, once, with no retry and no respawn.                           *)
C30_SettlesExactlyOnce ==
    /\ [][SettlesOnceStep]_vars
    /\ (invocations # <<>> /\ invocations[1].pc = "exited")
           ~> (invocations = <<>>)

(* C30 witness: the callback has resolved the only invocation in flight,   *)
(* whose process had started and exited.                                   *)
C30_Witness ==
    /\ last.op = "callback"
    /\ last.outcome.settled = "resolved"
    /\ ~last.error
    /\ invocations = <<>>

====
